---- MODULE Spec2Model ----
(***************************************************************************)
(* Token price storage system: the resolution pipeline of                  *)
(* POST /api/tokens (cache, durable store, oracle, interpolation, queue),  *)
(* the price-processing and batch-processing workers, the durable store    *)
(* and the interpolation engine.                                           *)
(*                                                                         *)
(* Time is counted in units of 12 hours: instant 1 is a UTC midnight,      *)
(* instant 2 the following noon, instant 3 the next midnight, and so on.   *)
(* A request without timestamp carries NoTs.  Prices are exact rationals   *)
(* [n, d]; the JavaScript code computes them in floating point.            *)
(***************************************************************************)
EXTENDS Integers, Sequences, FiniteSets, TLC

(***************************************************************************)
(* Bounds of the model.                                                    *)
(***************************************************************************)
MaxTime == 3
MaxRequests == 2
NumHandlers == 1
MaxBatchJobs == 1
MaxClockTicks == 1
NumStorers == 2
MaxStores == 3
MaxCronRuns == 2
MaxDays == 2
MaxArchiveRuns == 2
MaxSmCalls == 2
EngineSpan == 7
MaxEngineCalls == 1
MaxArchiverRuns == 2
MaxLmCalls == 3

(***************************************************************************)
(* Program constants.                                                      *)
(***************************************************************************)
HoursPerUnit == 12
UnitsPerDay == 2
maxDataPoints == 20
maxTimeGapHours == 24
extrapolationMaxChangePercent == 50
maxRetries == 3
minConfidenceThreshold == [n |-> 3, d |-> 10]
MinExtrapolatedUsd == [n |-> 1, d |-> 10000]

NoTs == 0
Times == 1..MaxTime

\* A timestamp string that new Date() cannot parse ("not-a-date"); as a string
\* it sorts after every ISO-8601 instant.
BadTs == 99

\* The timestamp string "current": unparseable as well, and the text that
\* the cache key and the document _id use for an absent timestamp.
CurrentLiteral == 98

Unparseable == {BadTs, CurrentLiteral}

(***************************************************************************)
(* Request inputs: one token address in two letter cases, one malformed    *)
(* address, one supported and one unsupported network.                     *)
(***************************************************************************)
TokenInputs == {"0xab", "0xAB", "0xabc"}
NetworkInputs == {"ethereum", "solana"}

\* A network that is a JSON value other than a string and not falsy
\* ({"network": 123}).
NotAString == "<123>"
supported == {"ethereum", "polygon", "arbitrum", "optimism"}
OracleUsd == {20}

toLowerCase(s) ==
  IF s = "0xAB" THEN "0xab" ELSE IF s = "Ethereum" THEN "ethereum" ELSE s

tokenRegex(token) == token \in {"0xab", "0xAB"}

(***************************************************************************)
(* Exact rational arithmetic standing for JavaScript Number arithmetic.    *)
(***************************************************************************)
RECURSIVE Gcd(_, _)
Gcd(a, b) == IF b = 0 THEN a ELSE Gcd(b, a % b)

Abs(x) == IF x < 0 THEN -x ELSE x

Norm(n, d) ==
  LET s == IF d < 0 THEN -1 ELSE 1
      g == Gcd(Abs(n), Abs(d))
  IN  [n |-> (s * n) \div g, d |-> (s * d) \div g]

RInt(i) == [n |-> i, d |-> 1]
RAdd(x, y) == Norm(x.n * y.d + y.n * x.d, x.d * y.d)
RSub(x, y) == Norm(x.n * y.d - y.n * x.d, x.d * y.d)
RMul(x, y) == Norm(x.n * y.n, x.d * y.d)
RDiv(x, y) == Norm(x.n * y.d, x.d * y.n)
RLess(x, y) == x.n * y.d < y.n * x.d
RLeq(x, y) == x.n * y.d <= y.n * x.d
RAbs(x) == [n |-> Abs(x.n), d |-> x.d]
RMax(x, y) == IF RLess(x, y) THEN y ELSE x
RMin(x, y) == IF RLess(y, x) THEN y ELSE x
RZero == RInt(0)

\* Number.parseFloat("NaN"): the usd of a price computed from an invalid date.
NaN == [n |-> 0, d |-> 0]
ROne == RInt(1)

(***************************************************************************)
(* Documents.  Every price document has the same fields; an oracle record  *)
(* has interpolated = FALSE, method "none" and confidence 0.               *)
(***************************************************************************)
NoDoc == << >>
Some(doc) == << doc >>

\* AlchemyService.getTokenPrice: the record built from a price of the feed.
AlchemyRecord(token, network, timestamp, usd, now) ==
  [token |-> toLowerCase(token),
   network |-> network,
   timestamp |-> IF timestamp # NoTs THEN timestamp ELSE now,
   usd |-> RInt(usd),
   interpolated |-> FALSE,
   method |-> "none",
   confidence |-> RZero,
   source |-> "alchemy_simulated"]

(***************************************************************************)
(* DatabaseManager: the live prices collection is a function from _id to   *)
(* document.                                                               *)
(***************************************************************************)
DocId(priceData) ==
  << priceData.token, priceData.network,
     IF priceData.timestamp # NoTs THEN priceData.timestamp ELSE NoTs >>

\* replaceOne({_id}, document, {upsert: true})
ReplaceOne(coll, id, document) ==
  [k \in DOMAIN coll \cup {id} |-> IF k = id THEN document ELSE coll[k]]

storeTokenPrice(coll, priceData) == ReplaceOne(coll, DocId(priceData), priceData)

\* storeHistoricalPrice: one updateOne with upsert on the daily rollup row.
\* new Date(timestamp).toISOString() throws for an unparseable timestamp; the
\* catch returns false and nothing is written.
Day(t) == (t - 1) \div UnitsPerDay

HistoricalKey(priceData) ==
  << priceData.token, priceData.network, Day(priceData.timestamp) >>

PricePoint(priceData) ==
  [timestamp |-> priceData.timestamp, usd |-> priceData.usd]

storeHistoricalPriceFirstMin(hist, priceData) ==
  IF priceData.timestamp \in Unparseable THEN hist
  ELSE
    LET key == HistoricalKey(priceData)
        usd == priceData.usd
        row ==
          IF key \in DOMAIN hist
            THEN [prices |-> Append(hist[key].prices, PricePoint(priceData)),
                  count |-> hist[key].count + 1,
                  min_price |-> hist[key].min_price,
                  max_price |-> RMax(hist[key].max_price, usd),
                  last_price |-> usd]
            ELSE [prices |-> << PricePoint(priceData) >>, count |-> 1,
                  min_price |-> usd, max_price |-> usd, last_price |-> usd]
    IN  [k \in DOMAIN hist \cup {key} |-> IF k = key THEN row ELSE hist[k]]

storeHistoricalPrice(hist, priceData) ==
  IF priceData.timestamp \in Unparseable THEN hist
  ELSE
    LET key == HistoricalKey(priceData)
        usd == priceData.usd
        row ==
          IF key \in DOMAIN hist
            THEN [prices |-> Append(hist[key].prices, PricePoint(priceData)),
                  count |-> hist[key].count + 1,
                  min_price |-> RMin(hist[key].min_price, usd),
                  max_price |-> RMax(hist[key].max_price, usd),
                  last_price |-> usd]
            ELSE [prices |-> << PricePoint(priceData) >>, count |-> 1,
                  min_price |-> usd, max_price |-> usd, last_price |-> usd]
    IN  [k \in DOMAIN hist \cup {key} |-> IF k = key THEN row ELSE hist[k]]

Matching(coll, token, network) ==
  {id \in DOMAIN coll :
     coll[id].token = toLowerCase(token) /\ coll[id].network = network}

\* findOne(query, {sort: {timestamp: -1}}) and findOne(query with timestamp)
getTokenPrice(coll, token, network, timestamp) ==
  LET m == Matching(coll, token, network)
  IN  IF timestamp # NoTs
        THEN LET e == {id \in m : coll[id].timestamp = timestamp}
             IN  IF e = {} THEN NoDoc ELSE Some(coll[CHOOSE id \in e : TRUE])
        ELSE IF m = {} THEN NoDoc
             ELSE Some(coll[CHOOSE id \in m :
                         \A o \in m : coll[o].timestamp <= coll[id].timestamp])

RECURSIVE SortByTimestamp(_)
SortByTimestamp(docs) ==
  IF docs = {} THEN << >>
  ELSE LET first == CHOOSE p \in docs : \A q \in docs : p.timestamp <= q.timestamp
       IN  << first >> \o SortByTimestamp(docs \ {first})

\* getNearestPrices: up to limit/2 rows before and limit/2 rows after the
\* target, merged and sorted ascending.  Without a timestamp, or with an
\* unparseable one, the target date is invalid, toISOString throws and the
\* catch returns [].
getNearestPrices(coll, token, network, targetTimestamp, limit) ==
  IF targetTimestamp \in {NoTs} \cup Unparseable THEN << >>
  ELSE
    LET m == {coll[id] : id \in Matching(coll, token, network)}
        before == {p \in m : p.timestamp < targetTimestamp}
        after == {p \in m : p.timestamp > targetTimestamp}
        beforePrices ==
          {p \in before :
             Cardinality({q \in before : q.timestamp > p.timestamp}) < limit \div 2}
        afterPrices ==
          {p \in after :
             Cardinality({q \in after : q.timestamp < p.timestamp}) < limit \div 2}
    IN  SortByTimestamp(beforePrices \cup afterPrices)

(***************************************************************************)
(* InterpolationEngine.                                                    *)
(***************************************************************************)
Point(price, method, points) == [price |-> price, method |-> method, points |-> points]

\* The price of the earlier point, with no interpolation towards the later.
stepInterpolation(beforePrice, afterPrice, targetDate) ==
  Point(Some(beforePrice.usd), "linear", << beforePrice, afterPrice >>)

linearInterpolation(beforePrice, afterPrice, targetDate) ==
  LET totalTimeDiff == afterPrice.timestamp - beforePrice.timestamp
      targetTimeDiff == targetDate - beforePrice.timestamp
      ratio == IF totalTimeDiff = 0 THEN RZero ELSE Norm(targetTimeDiff, totalTimeDiff)
      interpolatedUsd ==
        RAdd(beforePrice.usd, RMul(RSub(afterPrice.usd, beforePrice.usd), ratio))
  IN  Point(Some(interpolatedUsd), "linear", << beforePrice, afterPrice >>)

extrapolatePrice(prices, targetDate) ==
  IF Len(prices) < 2 THEN Point(NoDoc, "none", << >>)
  ELSE
    LET backwards == targetDate < prices[1].timestamp
        p1 == IF backwards THEN prices[1] ELSE prices[Len(prices) - 1]
        p2 == IF backwards THEN prices[2] ELSE prices[Len(prices)]
        timeDiff == p2.timestamp - p1.timestamp
        priceDiff == RSub(p2.usd, p1.usd)
    IN  IF timeDiff = 0 THEN Point(NoDoc, "none", << >>)
        ELSE
          LET priceChangeRate == RDiv(priceDiff, RInt(timeDiff))
              targetTimeDiff == targetDate - p2.timestamp
              raw == RAdd(p2.usd, RMul(priceChangeRate, RInt(targetTimeDiff)))
              maxChange ==
                RAbs(RMul(p2.usd, Norm(extrapolationMaxChangePercent, 100)))
              bounded ==
                RMax(RSub(p2.usd, maxChange), RMin(RAdd(p2.usd, maxChange), raw))
              extrapolatedUsd == RMax(MinExtrapolatedUsd, bounded)
          IN  Point(Some(extrapolatedUsd), "extrapolation", << p1, p2 >>)

Volatility(pa, pb) ==
  LET priceDiff == RAbs(RSub(pb.usd, pa.usd))
      avgPrice == RDiv(RAdd(pb.usd, pa.usd), RInt(2))
  IN  IF avgPrice.n = 0 THEN ROne ELSE RDiv(priceDiff, avgPrice)

calculateConfidence(dataPoints, targetDate, method) ==
  IF Len(dataPoints) = 0 THEN RZero
  ELSE IF method = "linear" /\ Len(dataPoints) = 2 THEN
    LET beforePrice == dataPoints[1]
        afterPrice == dataPoints[2]
        totalSpan == afterPrice.timestamp - beforePrice.timestamp
        targetPosition ==
          IF totalSpan = 0 THEN Norm(1, 2)
          ELSE Norm(targetDate - beforePrice.timestamp, totalSpan)
        timeConfidence ==
          RSub(ROne, RMul(RAbs(RSub(Norm(1, 2), targetPosition)), RInt(2)))
        volatilityConfidence ==
          RMax(RZero, RSub(ROne, Volatility(beforePrice, afterPrice)))
    IN  RMin(ROne, RDiv(RAdd(timeConfidence, volatilityConfidence), RInt(2)))
  ELSE IF method = "extrapolation" /\ Len(dataPoints) >= 2 THEN
    LET p1 == dataPoints[Len(dataPoints) - 1]
        p2 == dataPoints[Len(dataPoints)]
        dataSpan == p2.timestamp - dataPoints[1].timestamp
        extrapolationDistance == Abs(targetDate - p2.timestamp)
        timeConfidence ==
          IF dataSpan = 0 THEN Norm(1, 10)
          ELSE RMax(Norm(1, 10), RSub(ROne, Norm(extrapolationDistance, dataSpan)))
        volatilityConfidence == RMax(RZero, RSub(ROne, Volatility(p1, p2)))
    IN  RMin(ROne, RDiv(RAdd(timeConfidence, volatilityConfidence), RInt(2)))
  ELSE RZero

\* The filter without the time-gap comparison: every row with a parseable
\* timestamp is kept.
RECURSIVE FilterSeqAnyGap(_, _, _)
FilterSeqAnyGap(s, targetDate, i) ==
  IF i > Len(s) THEN << >>
  ELSE (IF s[i].timestamp \notin Unparseable THEN << s[i] >> ELSE << >>)
         \o FilterSeqAnyGap(s, targetDate, i + 1)

\* The time-gap filter; for a row with an unparseable timestamp hoursDiff is
\* NaN and the comparison is false.
RECURSIVE FilterSeq(_, _, _)
FilterSeq(s, targetDate, i) ==
  IF i > Len(s) THEN << >>
  ELSE (IF /\ s[i].timestamp \notin Unparseable
           /\ Abs(targetDate - s[i].timestamp) * HoursPerUnit <= maxTimeGapHours
          THEN << s[i] >> ELSE << >>) \o FilterSeq(s, targetDate, i + 1)

AcceptInterpolationAnyConfidence(usd, confidence) ==
  /\ usd # NoDoc
  /\ ~ RLeq(usd[1], RZero)

\* The gate of interpolatePrice: an invalid price or a low confidence is
\* answered with null.
AcceptInterpolation(usd, confidence) ==
  /\ usd # NoDoc
  /\ ~ RLeq(usd[1], RZero)
  /\ ~ RLess(confidence, minConfidenceThreshold)

interpolatePrice(coll, token, network, timestamp) ==
  LET nearestPrices == getNearestPrices(coll, token, network, timestamp, maxDataPoints)
  IN  IF Len(nearestPrices) < 2 THEN NoDoc
      ELSE
        LET filteredPrices == FilterSeq(nearestPrices, timestamp, 1)
        IN  IF Len(filteredPrices) < 2 THEN NoDoc
            ELSE
              LET beforePrices == SelectSeq(filteredPrices, LAMBDA p : p.timestamp < timestamp)
                  afterPrices == SelectSeq(filteredPrices, LAMBDA p : p.timestamp > timestamp)
                  r == IF Len(beforePrices) = 0 \/ Len(afterPrices) = 0
                         THEN extrapolatePrice(filteredPrices, timestamp)
                         ELSE linearInterpolation(beforePrices[Len(beforePrices)],
                                                  afterPrices[1], timestamp)
                  confidence == calculateConfidence(r.points, timestamp, r.method)
              IN  IF ~ AcceptInterpolation(r.price, confidence) THEN NoDoc
                  ELSE Some([token |-> token,
                             network |-> network,
                             timestamp |-> timestamp,
                             usd |-> r.price[1],
                             interpolated |-> TRUE,
                             method |-> r.method,
                             confidence |-> confidence,
                             source |-> "interpolation"])

(***************************************************************************)
(* The server: state.                                                      *)
(***************************************************************************)
VARIABLES
  cache,        \* Redis: cache key -> [value, ttl]
  prices,       \* MongoDB prices collection: _id -> document
  tokens,       \* MongoDB tokens collection (token registry)
  priceQueue,   \* waiting jobs of the price-processing queue
  batchQueue,   \* waiting jobs of the batch-processing queue
  now,          \* the wall clock read by new Date()
  handler,      \* one POST /api/tokens invocation per request
  worker,       \* the price-processing worker
  batch,        \* the batch-processing worker
  batchJobs,    \* number of POST /api/batch/historical requests served
  requests,     \* number of POST /api/tokens requests received
  historical,   \* MongoDB historical collection: daily rollup rows
  batchReply,   \* status of the last POST /api/batch/historical reply
  storer,       \* direct callers of DatabaseManager.storeTokenPrice
  storedAt,     \* storedAt of each document of the prices collection
  archived,     \* MongoDB archived collection
  archiveRuns,  \* cutoff and return value of each archiveOldData call
  cron,         \* the daily_historical_fetch callback
  cacheStats,   \* MongoDB cacheStats collection: today's bucket
  sm,           \* a caller of StorageManager.cacheSet / cacheGet / cacheDelete
  conn,         \* connections, cron jobs and process state at shutdown
  engine,       \* a direct caller of InterpolationEngine.interpolatePrice
  lm,           \* DataLifecycleManager: isRunning, the job map, live cron tasks
  archiver      \* a run of StorageManager.archiveOldData

vars == << cache, prices, tokens, priceQueue, batchQueue, now, handler, worker,
           batch, batchJobs, requests, historical, batchReply, storer,
           storedAt, archived, archiveRuns, cron, cacheStats, sm, conn,
           engine, lm, archiver >>

services == << engine, lm, archiver >>

lifecycle == << archived, archiveRuns, cron, cacheStats, sm, conn, services >>

Handlers == 1..NumHandlers

ttlCurrentPrice == 300
ttlHistoricalPrice == 3600
ttlInterpolatedPrice == 1800
CreationDate == 1

\* `${timestamp}` inside a template string; the literal "current" reads the
\* same as the suffix written for an absent timestamp.
TimestampText(timestamp) ==
  IF timestamp = CurrentLiteral THEN NoTs ELSE timestamp

generateCacheKey(token, network, timestamp) ==
  << network, toLowerCase(token),
     IF timestamp # NoTs THEN TimestampText(timestamp) ELSE NoTs >>

\* redisClient.setEx(key, ttl, JSON.stringify(value))
setEx(c, key, ttl, value) ==
  [k \in DOMAIN c \cup {key} |-> IF k = key THEN [value |-> value, ttl |-> ttl] ELSE c[k]]

\* redisClient.get(key) followed by JSON.parse
cacheGet(c, key) == IF key \in DOMAIN c THEN Some(c[key].value) ELSE NoDoc

NoReply ==
  [status |-> 0, data |-> NoDoc, cached |-> FALSE, fromDB |-> FALSE,
   fromAPI |-> FALSE, interpolated |-> FALSE, queued |-> FALSE]

BadRequest == [NoReply EXCEPT !.status = 400]

\* The catch of the handler: res.status(500)
ServerError == [NoReply EXCEPT !.status = 500]

\* res.json({data: {...parsedCache, cached: true}})
CacheReply(parsedCache) ==
  [NoReply EXCEPT !.status = 200, !.data = Some(parsedCache), !.cached = TRUE,
                  !.interpolated = parsedCache.interpolated]

\* res.json({data: {...dbPrice, cached: false, fromDB: true}})
StoreReply(dbPrice) ==
  [NoReply EXCEPT !.status = 200, !.data = Some(dbPrice), !.fromDB = TRUE,
                  !.interpolated = dbPrice.interpolated]

\* res.json({data: {...alchemyPrice, cached: false, fromAPI: true}})
OracleReply(alchemyPrice) ==
  [NoReply EXCEPT !.status = 200, !.data = Some(alchemyPrice), !.fromAPI = TRUE,
                  !.interpolated = alchemyPrice.interpolated]

\* res.json({data: {...interpolatedPrice, cached: false, interpolated: true}})
InterpolatedReply(interpolatedPrice) ==
  [NoReply EXCEPT !.status = 200, !.data = Some(interpolatedPrice),
                  !.interpolated = TRUE]

\* res.status(202).json({success: false, queued: true})
QueuedReply == [NoReply EXCEPT !.status = 202, !.queued = TRUE]

JobPrioritySwapped(timestamp) == IF timestamp # NoTs THEN 10 ELSE 1

JobPriority(timestamp) == IF timestamp # NoTs THEN 1 ELSE 10

PriceJob(token, network, timestamp) ==
  [token |-> token, network |-> network, timestamp |-> timestamp,
   priority |-> JobPriority(timestamp)]

\* The control flow of the handler after each tier.
AfterCacheGetIgnoringHit(cachedPrice) == "store"

AfterCacheGet(cachedPrice) == IF cachedPrice # NoDoc THEN "done" ELSE "store"
AfterStoreGet(dbPrice) == IF dbPrice # NoDoc THEN "warm" ELSE "oracle"
AfterOracle(alchemyPrice) == IF alchemyPrice # NoDoc THEN "writeApi" ELSE "interpolate"
AfterInterpolation(interpolatedPrice) ==
  IF interpolatedPrice # NoDoc THEN "writeInterpolated" ELSE "enqueue"

Tier(name, doc) == [tier |-> name, hit |-> doc # NoDoc]

IdleHandler ==
  [pc |-> "init", token |-> "", network |-> "", timestamp |-> NoTs, doc |-> NoDoc,
   pending |-> {}, tiers |-> << >>, writes |-> {}, enqueued |-> << >>,
   faults |-> {}, reply |-> NoReply]

IdleWorker ==
  [pc |-> "idle", job |-> << >>, attempt |-> 0, doc |-> NoDoc, pending |-> {},
   existed |-> FALSE, oracleCalls |-> 0, wrote |-> {}, storeFaults |-> 0,
   log |-> << >>]

IdleBatch ==
  [pc |-> "idle", job |-> << >>, timestamps |-> << >>, i |-> 0, doc |-> NoDoc,
   oracleCalls |-> 0, processed |-> 0, errors |-> 0, skipped |-> 0,
   storeFaults |-> 0, runs |-> << >>]

\* Stores a deployment may start from: oracle records of the lowercase token
\* at none or at two of the last three instants, 10 USD before the last
\* instant and 20 USD at the last one.
SeedDoc(t) ==
  AlchemyRecord("0xab", "ethereum", t, IF t < MaxTime THEN 10 ELSE 20, t)

SeedStores ==
  {[id \in {<< "0xab", "ethereum", t >> : t \in S} |-> SeedDoc(id[3])] :
     S \in {T \in SUBSET ((MaxTime - 2)..MaxTime) : Cardinality(T) \in {0, 2}}}

EmptyMap == [k \in {} |-> 0]

\* The rollup rows left by storing the given records one after the other.
RECURSIVE RollupAll(_, _)
RollupAll(hist, docs) ==
  IF docs = << >> THEN hist
  ELSE RollupAll(storeHistoricalPrice(hist, Head(docs)), Tail(docs))

Storers == 1..NumStorers

IdleStorer == [pc |-> "idle", priceData |-> NoDoc, calls |-> 0]

\* storeTokenPrice: storedAt = new Date() of the stored document.
Stamp(stamps, priceData, clock) ==
  [id \in DOMAIN stamps \cup {DocId(priceData)} |->
     IF id = DocId(priceData) THEN clock ELSE stamps[id]]

IdleCron ==
  [pc |-> "idle", todo |-> << >>, entries |-> << >>, jobs |-> << >>,
   runs |-> 0, log |-> << >>]

EmptyBucket == [hit |-> 0, miss |-> 0, set |-> 0, delete |-> 0, total |-> 0]

IdleSm == [pc |-> "idle", operation |-> "none", strategy |-> "none", calls |-> 0]

Running ==
  [signal |-> "none", cache |-> "open", store |-> "open",
   priceQueue |-> "open", batchQueue |-> "open", cron |-> "scheduled",
   exited |-> FALSE]

IdleEngine ==
  [calls |-> 0, timestamp |-> NoTs, filteredPrices |-> << >>, result |-> NoDoc]

IdleArchiver ==
  [pc |-> "idle", cutoffDate |-> NoTs, oldData |-> {}, runs |-> 0,
   removed |-> {}, raced |-> FALSE]

cacheWarmingEnabled == TRUE
monitoringEnabled == TRUE

JobNames ==
  {"cache_cleanup", "data_archival", "cache_warming", "metrics_collection",
   "db_optimization", "daily_historical_fetch"}

\* new DataLifecycleManager(...): tasks counts, per job name, the cron tasks
\* that were scheduled and not stopped.
Constructed(warming, monitoring) ==
  [isRunning |-> FALSE, jobs |-> {}, tasks |-> [name \in JobNames |-> 0],
   cacheWarmingEnabled |-> warming, monitoringEnabled |-> monitoring,
   log |-> << >>]

\* The names scheduleJobs puts in the map, each with a new cron task.
Scheduled(m) ==
  {name \in JobNames :
     /\ name = "cache_warming" => m.cacheWarmingEnabled
     /\ name = "metrics_collection" => m.monitoringEnabled}

scheduleJobs(m) ==
  [m EXCEPT !.jobs = @ \cup Scheduled(m),
            !.tasks = [name \in JobNames |->
                         IF name \in Scheduled(m) THEN @[name] + 1 ELSE @[name]]]

\* A start that schedules whether or not the manager is running.
startUnguarded(m) == [scheduleJobs(m) EXCEPT !.isRunning = TRUE]

start(m) ==
  IF m.isRunning THEN m ELSE [scheduleJobs(m) EXCEPT !.isRunning = TRUE]

\* job.stop() on every entry of the map, then clear().
stop(m) ==
  [m EXCEPT !.tasks = [name \in JobNames |->
                         IF name \in m.jobs THEN @[name] - 1 ELSE @[name]],
            !.jobs = {},
            !.isRunning = FALSE]

\* The state after startServer with the given token registry and the given
\* jobs waiting in the price-processing queue; MongoDB and the Redis of
\* BullMQ keep both across restarts.
BootWith(stores, registry, waiting) ==
  /\ cache = EmptyMap
  /\ prices \in stores
  /\ tokens = registry
  /\ priceQueue = waiting
  /\ batchQueue = << >>
  /\ now = MaxTime + 1
  /\ handler = [h \in Handlers |-> IdleHandler]
  /\ worker = IdleWorker
  /\ batch = IdleBatch
  /\ batchJobs = 0
  /\ requests = 0
  /\ historical =
       RollupAll(EmptyMap, SortByTimestamp({prices[id] : id \in DOMAIN prices}))
  /\ batchReply = 0
  /\ storer = [s \in Storers |-> IdleStorer]
  /\ storedAt = [id \in DOMAIN prices |-> now]
  /\ archived = {}
  /\ archiveRuns = << >>
  /\ cron = IdleCron
  /\ cacheStats = EmptyMap
  /\ sm = IdleSm
  /\ conn = Running
  /\ engine = IdleEngine
  /\ lm = start(Constructed(cacheWarmingEnabled, monitoringEnabled))
  /\ archiver = IdleArchiver

Boot(registry, waiting) == BootWith(SeedStores, registry, waiting)

Init == Boot({}, << >>)

(***************************************************************************)
(* POST /api/tokens.  Each await of the handler is one step.               *)
(***************************************************************************)
Validate(token, network) == tokenRegex(token) /\ toLowerCase(network) \in supported

\* The reply of the validation: 400 from one of its three checks, 500 from the
\* catch when network.toLowerCase is not a function, 200 when it lets the
\* request through.
ValidationStatus(token, network) ==
  IF token = "" \/ network = "" \/ ~ tokenRegex(token) THEN 400
  ELSE IF network = NotAString THEN 500
  ELSE IF Validate(token, network) THEN 200 ELSE 400

\* What getTokenPrice can answer: null (no metadata, no price, any error) or
\* a record of the simulated feed, stamped with the clock when the request
\* has no timestamp.  For an unparseable timestamp getHistoricalPrice computes
\* with an invalid date and its usd is NaN, which passes the null check.
OracleResults(token, network, timestamp, clock) ==
  IF timestamp \in Unparseable
    THEN {NoDoc, Some([AlchemyRecord(token, network, timestamp, 0, clock)
                         EXCEPT !.usd = NaN])}
    ELSE {NoDoc} \cup {Some(AlchemyRecord(token, network, timestamp, usd, clock)) :
                         usd \in OracleUsd}

\* new Date(): the clock never goes back.
ClockReadings(timestamp) ==
  IF timestamp # NoTs THEN {now}
  ELSE {t \in {now, now + 1} : t <= MaxTime + 1 + MaxClockTicks}

WriteTtl(pc) == IF pc = "writeApi" THEN ttlCurrentPrice ELSE ttlInterpolatedPrice

addToken(coll, token, network, creationDate) ==
  {t \in coll : ~ (t.token = toLowerCase(token) /\ t.network = network)}
    \cup {[token |-> toLowerCase(token), network |-> network,
           creationDate |-> creationDate]}

existingToken(coll, token, network) ==
  \E t \in coll : t.token = toLowerCase(token) /\ t.network = network

\* The state of a handler once both writes of Promise.all have completed;
\* a rejected setEx rejects Promise.all and the catch replies 500, while the
\* store write that was started still runs to its end.
AfterWrite(st) ==
  IF st.pending # {} THEN st
  ELSE IF "cacheSet" \in st.faults THEN [st EXCEPT !.pc = "done", !.reply = ServerError]
  ELSE IF st.pc = "writeApi" THEN [st EXCEPT !.pc = "registry"]
  ELSE [st EXCEPT !.pc = "done", !.reply = InterpolatedReply(st.doc[1])]

Receive(h, token, network, timestamp) ==
  /\ handler[h].pc \in {"init", "done"}
  /\ requests < MaxRequests
  /\ requests' = requests + 1
  /\ handler' = [handler EXCEPT ![h] =
       LET status == ValidationStatus(token, network)
       IN  IF status = 200
             THEN [IdleHandler EXCEPT !.pc = "cache", !.token = token,
                                      !.network = network, !.timestamp = timestamp]
             ELSE [IdleHandler EXCEPT !.pc = "done",
                     !.reply = IF status = 400 THEN BadRequest ELSE ServerError]]
  /\ UNCHANGED << cache, prices, tokens, priceQueue, batchQueue, now,
                  worker, batch, batchJobs, historical, batchReply, storer,
                  storedAt, lifecycle >>

CacheGet(h) ==
  /\ handler[h].pc = "cache"
  /\ LET st == handler[h]
         cachedPrice == cacheGet(cache, generateCacheKey(st.token, st.network, st.timestamp))
         next == AfterCacheGet(cachedPrice)
     IN  handler' = [handler EXCEPT ![h] =
           [st EXCEPT !.pc = next,
                      !.tiers = Append(@, Tier("cache", cachedPrice)),
                      !.reply = IF next = "done" THEN CacheReply(cachedPrice[1]) ELSE @]]
  /\ UNCHANGED << cache, prices, tokens, priceQueue, batchQueue, now,
                  worker, batch, batchJobs, requests, historical,
                  batchReply, storer,
                  storedAt, lifecycle >>

StoreGet(h) ==
  /\ handler[h].pc = "store"
  /\ LET st == handler[h]
         dbPrice == getTokenPrice(prices, st.token, st.network, st.timestamp)
     IN  handler' = [handler EXCEPT ![h] =
           [st EXCEPT !.pc = AfterStoreGet(dbPrice),
                      !.tiers = Append(@, Tier("store", dbPrice)),
                      !.doc = dbPrice]]
  /\ UNCHANGED << cache, prices, tokens, priceQueue, batchQueue, now,
                  worker, batch, batchJobs, requests, historical,
                  batchReply, storer,
                  storedAt, lifecycle >>

WarmSet(h) ==
  /\ handler[h].pc = "warm"
  /\ LET st == handler[h]
     IN  /\ cache' = setEx(cache, generateCacheKey(st.token, st.network, st.timestamp),
                           ttlCurrentPrice, st.doc[1])
         /\ handler' = [handler EXCEPT ![h] =
              [st EXCEPT !.pc = "done", !.writes = @ \cup {"cache"},
                         !.reply = StoreReply(st.doc[1])]]
  /\ UNCHANGED << prices, tokens, priceQueue, batchQueue, now, worker,
                  batch, batchJobs, requests, historical, batchReply, storer,
                  storedAt, lifecycle >>

Oracle(h) ==
  /\ handler[h].pc = "oracle"
  /\ LET st == handler[h]
     IN  \E clock \in ClockReadings(st.timestamp) :
           /\ now' = clock
           /\ \E alchemyPrice \in OracleResults(st.token, st.network, st.timestamp, clock) :
                LET next == AfterOracle(alchemyPrice)
                IN  handler' = [handler EXCEPT ![h] =
                      [st EXCEPT !.pc = next,
                                 !.tiers = Append(@, Tier("oracle", alchemyPrice)),
                                 !.doc = alchemyPrice,
                                 !.pending = IF next = "writeApi"
                                               THEN {"cache", "store"} ELSE {}]]
  /\ UNCHANGED << cache, prices, tokens, priceQueue, batchQueue, worker,
                  batch, batchJobs, requests, historical, batchReply, storer,
                  storedAt, lifecycle >>

WriteCache(h) ==
  /\ handler[h].pc \in {"writeApi", "writeInterpolated"}
  /\ "cache" \in handler[h].pending
  /\ LET st == handler[h]
     IN  /\ cache' = setEx(cache, generateCacheKey(st.token, st.network, st.timestamp),
                           WriteTtl(st.pc), st.doc[1])
         /\ handler' = [handler EXCEPT ![h] =
              AfterWrite([st EXCEPT !.pending = @ \ {"cache"},
                                    !.writes = @ \cup {"cache"}])]
  /\ UNCHANGED << prices, tokens, priceQueue, batchQueue, now, worker,
                  batch, batchJobs, requests, historical, batchReply, storer,
                  storedAt, lifecycle >>

WriteStore(h) ==
  /\ handler[h].pc \in {"writeApi", "writeInterpolated"}
  /\ "store" \in handler[h].pending
  /\ LET st == handler[h]
     IN  /\ prices' = storeTokenPrice(prices, st.doc[1])
         /\ storedAt' = Stamp(storedAt, st.doc[1], now)
         /\ handler' = [handler EXCEPT ![h] =
              [st EXCEPT !.pending = (@ \ {"store"}) \cup {"rollup"},
                         !.writes = @ \cup {"store"}]]
  /\ UNCHANGED << cache, tokens, priceQueue, batchQueue, now, worker, batch,
                  batchJobs, requests, historical, batchReply, storer,
                  lifecycle >>

\* storeTokenPrice goes on with storeHistoricalPrice (every record it is given
\* here carries a timestamp).
Rollup(h) ==
  /\ handler[h].pc \in {"writeApi", "writeInterpolated"}
  /\ "rollup" \in handler[h].pending
  /\ LET st == handler[h]
     IN  /\ historical' = storeHistoricalPrice(historical, st.doc[1])
         /\ handler' = [handler EXCEPT ![h] =
              AfterWrite([st EXCEPT !.pending = @ \ {"rollup"}])]
  /\ UNCHANGED << cache, prices, tokens, priceQueue, batchQueue, now, worker,
                  batch, batchJobs, requests, batchReply, storer,
                  storedAt, lifecycle >>

\* getAllTokens, then for a token not yet registered getTokenCreationDate
\* (null when no transfer is found) and addToken.
Registry(h) ==
  /\ handler[h].pc = "registry"
  /\ LET st == handler[h]
     IN  /\ IF existingToken(tokens, st.token, st.network)
              THEN tokens' = tokens
              ELSE \E creationDate \in {NoTs, CreationDate} :
                     tokens' = IF creationDate # NoTs
                                 THEN addToken(tokens, st.token, st.network, creationDate)
                                 ELSE tokens
         /\ handler' = [handler EXCEPT ![h] =
              [st EXCEPT !.pc = "done", !.reply = OracleReply(st.doc[1])]]
  /\ UNCHANGED << cache, prices, priceQueue, batchQueue, now, worker, batch,
                  batchJobs, requests, historical, batchReply, storer,
                  storedAt, lifecycle >>

Interpolate(h) ==
  /\ handler[h].pc = "interpolate"
  /\ LET st == handler[h]
         interpolatedPrice == interpolatePrice(prices, st.token, st.network, st.timestamp)
         next == AfterInterpolation(interpolatedPrice)
     IN  handler' = [handler EXCEPT ![h] =
           [st EXCEPT !.pc = next,
                      !.tiers = Append(@, Tier("interpolation", interpolatedPrice)),
                      !.doc = interpolatedPrice,
                      !.pending = IF next = "writeInterpolated"
                                    THEN {"cache", "store"} ELSE {}]]
  /\ UNCHANGED << cache, prices, tokens, priceQueue, batchQueue, now,
                  worker, batch, batchJobs, requests, historical,
                  batchReply, storer,
                  storedAt, lifecycle >>

Enqueue(h) ==
  /\ handler[h].pc = "enqueue"
  /\ LET st == handler[h]
         job == PriceJob(st.token, st.network, st.timestamp)
     IN  /\ priceQueue' = Append(priceQueue, job)
         /\ handler' = [handler EXCEPT ![h] =
              [st EXCEPT !.pc = "done",
                         !.tiers = Append(@, Tier("queue", NoDoc)),
                         !.enqueued = Append(@, job),
                         !.reply = QueuedReply]]
  /\ UNCHANGED << cache, prices, tokens, batchQueue, now, worker, batch,
                  batchJobs, requests, historical, batchReply, storer,
                  storedAt, lifecycle >>

(***************************************************************************)
(* Failures of Redis, MongoDB and the oracle during POST /api/tokens.      *)
(***************************************************************************)
\* redisClient.get rejects: the catch of the handler replies 500.
CacheGetFails(h) ==
  /\ handler[h].pc = "cache"
  /\ handler' = [handler EXCEPT ![h] =
       [@ EXCEPT !.pc = "done",
                 !.tiers = Append(@, Tier("cache", NoDoc)),
                 !.faults = @ \cup {"cacheGet"},
                 !.reply = ServerError]]
  /\ UNCHANGED << cache, prices, tokens, priceQueue, batchQueue, now, worker,
                  batch, batchJobs, requests, historical, batchReply, storer,
                  storedAt, lifecycle >>

\* The findOne of DatabaseManager.getTokenPrice rejects: its catch returns
\* null and the handler goes on as after a miss.
StoreGetFails(h) ==
  /\ handler[h].pc = "store"
  /\ handler' = [handler EXCEPT ![h] =
       [@ EXCEPT !.pc = AfterStoreGet(NoDoc),
                 !.tiers = Append(@, Tier("store", NoDoc)),
                 !.doc = NoDoc,
                 !.faults = @ \cup {"store"}]]
  /\ UNCHANGED << cache, prices, tokens, priceQueue, batchQueue, now, worker,
                  batch, batchJobs, requests, historical, batchReply, storer,
                  storedAt, lifecycle >>

\* The setEx of the store tier rejects: the catch of the handler replies 500.
WarmSetFails(h) ==
  /\ handler[h].pc = "warm"
  /\ handler' = [handler EXCEPT ![h] =
       [@ EXCEPT !.pc = "done", !.faults = @ \cup {"cacheSet"},
                 !.reply = ServerError]]
  /\ UNCHANGED << cache, prices, tokens, priceQueue, batchQueue, now, worker,
                  batch, batchJobs, requests, historical, batchReply, storer,
                  storedAt, lifecycle >>

AfterOracleErrorSurfaced(st) ==
  [st EXCEPT !.pc = "done",
             !.tiers = Append(@, Tier("oracle", NoDoc)),
             !.faults = @ \cup {"oracle"},
             !.reply = ServerError]

\* AlchemyService.getTokenPrice catches every error of the SDK (thrown error,
\* timeout, rate limit) and returns null, as it does for missing metadata.
AfterOracleError(st) ==
  [st EXCEPT !.pc = AfterOracle(NoDoc),
             !.tiers = Append(@, Tier("oracle", NoDoc)),
             !.doc = NoDoc,
             !.faults = @ \cup {"oracle"}]

OracleFails(h) ==
  /\ handler[h].pc = "oracle"
  /\ handler' = [handler EXCEPT ![h] = AfterOracleError(@)]
  /\ UNCHANGED << cache, prices, tokens, priceQueue, batchQueue, now, worker,
                  batch, batchJobs, requests, historical, batchReply, storer,
                  storedAt, lifecycle >>

\* The setEx inside Promise.all rejects.
WriteCacheFails(h) ==
  /\ handler[h].pc \in {"writeApi", "writeInterpolated"}
  /\ "cache" \in handler[h].pending
  /\ handler' = [handler EXCEPT ![h] =
       AfterWrite([@ EXCEPT !.pending = @ \ {"cache"},
                            !.faults = @ \cup {"cacheSet"}])]
  /\ UNCHANGED << cache, prices, tokens, priceQueue, batchQueue, now, worker,
                  batch, batchJobs, requests, historical, batchReply, storer,
                  storedAt, lifecycle >>

HandlerFault(h) ==
  \/ CacheGetFails(h)
  \/ StoreGetFails(h)
  \/ WarmSetFails(h)
  \/ OracleFails(h)
  \/ WriteCacheFails(h)

(***************************************************************************)
(* The price-processing worker.                                            *)
(***************************************************************************)
WorkerResult(w, fetched, outcome) ==
  [data |-> w.job[1], fetched |-> fetched, existed |-> w.existed,
   oracleCalls |-> w.oracleCalls, wrote |-> w.wrote,
   storeFaults |-> w.storeFaults, outcome |-> outcome]

\* The processor returns: the job is completed.
Finish(w, fetched) ==
  [IdleWorker EXCEPT !.log = Append(w.log, WorkerResult(w, fetched, "completed"))]

\* The processor throws: the job is failed.
FailJob(w) ==
  [IdleWorker EXCEPT !.log = Append(w.log, WorkerResult(w, FALSE, "failed"))]

\* getTokenPriceWithRetry: the loop goes on to the next attempt when
\* getTokenPrice returned null and ends after maxRetries attempts.
AfterAttempt(price, attempt) ==
  IF price # NoDoc THEN "writeApi"
  ELSE IF attempt < maxRetries THEN "fetch" ELSE "interpolate"

WorkerAfterWrite(w) ==
  IF w.pending # {} THEN w
  ELSE IF w.storeFaults > 0 THEN FailJob(w)
  ELSE IF w.pc = "writeApi" THEN [w EXCEPT !.pc = "registry"]
  ELSE Finish(w, FALSE)

WorkerTake ==
  /\ worker.pc = "idle"
  /\ priceQueue # << >>
  /\ LET job == Head(priceQueue)
     IN  worker' = [worker EXCEPT
           !.pc = "fetch", !.job = Some(job), !.attempt = 1,
           !.existed = job.timestamp # NoTs
                       /\ getTokenPrice(prices, job.token, job.network, job.timestamp) # NoDoc]
  /\ priceQueue' = Tail(priceQueue)
  /\ UNCHANGED << cache, prices, tokens, batchQueue, now, handler, batch,
                  batchJobs, requests, historical, batchReply, storer,
                  storedAt, lifecycle >>

WorkerFetch ==
  /\ worker.pc = "fetch"
  /\ LET job == worker.job[1]
     IN  \E clock \in ClockReadings(job.timestamp) :
           /\ now' = clock
           /\ \E price \in OracleResults(job.token, job.network, job.timestamp, clock) :
                LET next == AfterAttempt(price, worker.attempt)
                IN  worker' = [worker EXCEPT
                      !.pc = next,
                      !.attempt = IF next = "fetch" THEN @ + 1 ELSE @,
                      !.oracleCalls = @ + 1,
                      !.doc = price,
                      !.pending = IF next = "writeApi" THEN {"cache", "store"} ELSE {}]
  /\ UNCHANGED << cache, prices, tokens, priceQueue, batchQueue, handler,
                  batch, batchJobs, requests, historical, batchReply, storer,
                  storedAt, lifecycle >>

WorkerWriteCache ==
  /\ worker.pc \in {"writeApi", "writeInterpolated"}
  /\ "cache" \in worker.pending
  /\ LET job == worker.job[1]
     IN  cache' = setEx(cache, generateCacheKey(job.token, job.network, job.timestamp),
                        WriteTtl(worker.pc), worker.doc[1])
  /\ worker' = WorkerAfterWrite([worker EXCEPT !.pending = @ \ {"cache"}])
  /\ UNCHANGED << prices, tokens, priceQueue, batchQueue, now, handler,
                  batch, batchJobs, requests, historical, batchReply, storer,
                  storedAt, lifecycle >>

WorkerWriteStore ==
  /\ worker.pc \in {"writeApi", "writeInterpolated"}
  /\ "store" \in worker.pending
  /\ prices' = storeTokenPrice(prices, worker.doc[1])
  /\ storedAt' = Stamp(storedAt, worker.doc[1], now)
  /\ worker' = [worker EXCEPT !.pending = (@ \ {"store"}) \cup {"rollup"},
                              !.wrote = @ \cup {DocId(worker.doc[1])}]
  /\ UNCHANGED << cache, tokens, priceQueue, batchQueue, now, handler,
                  batch, batchJobs, requests, historical, batchReply, storer,
                  lifecycle >>

WorkerRollup ==
  /\ worker.pc \in {"writeApi", "writeInterpolated"}
  /\ "rollup" \in worker.pending
  /\ historical' = storeHistoricalPrice(historical, worker.doc[1])
  /\ worker' = WorkerAfterWrite([worker EXCEPT !.pending = @ \ {"rollup"}])
  /\ UNCHANGED << cache, prices, tokens, priceQueue, batchQueue, now, handler,
                  batch, batchJobs, requests, batchReply, storer,
                  storedAt, lifecycle >>

WorkerRegistry ==
  /\ worker.pc = "registry"
  /\ LET job == worker.job[1]
     IN  IF existingToken(tokens, job.token, job.network)
           THEN tokens' = tokens
           ELSE \E creationDate \in {NoTs, CreationDate} :
                  tokens' = IF creationDate # NoTs
                              THEN addToken(tokens, job.token, job.network, creationDate)
                              ELSE tokens
  /\ worker' = Finish(worker, TRUE)
  /\ UNCHANGED << cache, prices, priceQueue, batchQueue, now, handler,
                  batch, batchJobs, requests, historical, batchReply, storer,
                  storedAt, lifecycle >>

WorkerInterpolate ==
  /\ worker.pc = "interpolate"
  /\ LET job == worker.job[1]
         interpolatedPrice == interpolatePrice(prices, job.token, job.network, job.timestamp)
     IN  worker' = IF interpolatedPrice # NoDoc
                     THEN [worker EXCEPT !.pc = "writeInterpolated",
                                         !.doc = interpolatedPrice,
                                         !.pending = {"cache", "store"}]
                     ELSE Finish(worker, FALSE)
  /\ UNCHANGED << cache, prices, tokens, priceQueue, batchQueue, now,
                  handler, batch, batchJobs, requests, historical,
                  batchReply, storer,
                  storedAt, lifecycle >>

(***************************************************************************)
(* POST /api/batch/historical and the batch-processing worker.             *)
(***************************************************************************)
Midnight(t) == t - ((t - 1) % UnitsPerDay)

RECURSIVE DailyFrom(_, _)
DailyFrom(current, end) ==
  IF current <= end THEN << current >> \o DailyFrom(current + UnitsPerDay, end) ELSE << >>

generateDailyTimestamps(startDate, endDate) == DailyFrom(Midnight(startDate), Midnight(endDate))

\* processBatchHistorical returns its counters: the job is completed.
BatchResult(b) ==
  [job |-> b.job[1], oracleCalls |-> b.oracleCalls, processed |-> b.processed,
   errors |-> b.errors, skipped |-> b.skipped, storeFaults |-> b.storeFaults,
   outcome |-> "completed"]

\* The loop of processBatchHistorical moves on to the next request.
BatchAdvance(b) ==
  IF b.i < Len(b.timestamps)
    THEN [b EXCEPT !.pc = "check", !.i = @ + 1, !.doc = NoDoc]
    ELSE [IdleBatch EXCEPT !.runs = Append(b.runs, BatchResult(b))]

\* The endpoint checks only that the four fields are present ("" and NoTs
\* stand for a missing field).
BatchEnqueue(token, network, startDate, endDate) ==
  /\ batchJobs < MaxBatchJobs
  /\ batchJobs' = batchJobs + 1
  /\ IF token = "" \/ network = "" \/ startDate = NoTs \/ endDate = NoTs
       THEN /\ batchReply' = 400
            /\ batchQueue' = batchQueue
       ELSE /\ batchReply' = 200
            /\ batchQueue' =
                 Append(batchQueue, [token |-> token, network |-> network,
                                     startDate |-> startDate, endDate |-> endDate])
  /\ UNCHANGED << cache, prices, tokens, priceQueue, now, handler, worker,
                  batch, requests, historical, storer,
                  storedAt, lifecycle >>

\* batchGetTokenPrices asks the oracle for the price of every request before
\* the loop looks at the store.  A price depends on nothing the server holds,
\* so its value is drawn when the loop reaches its request.
BatchTake ==
  /\ batch.pc = "idle"
  /\ batchQueue # << >>
  /\ LET job == Head(batchQueue)
         timestamps == generateDailyTimestamps(job.startDate, job.endDate)
         b == [batch EXCEPT !.job = Some(job), !.timestamps = timestamps, !.i = 0,
                            !.oracleCalls = Len(timestamps)]
     IN  batch' = BatchAdvance(b)
  /\ batchQueue' = Tail(batchQueue)
  /\ UNCHANGED << cache, prices, tokens, priceQueue, now, handler, worker,
                  batchJobs, requests, historical, batchReply, storer,
                  storedAt, lifecycle >>

\* The loop of processBatchHistorical without its existence check: every
\* request is fetched and stored again.
BatchCheckIgnoringExisting ==
  /\ batch.pc = "check"
  /\ LET job == batch.job[1]
         ts == batch.timestamps[batch.i]
     IN  \E price \in OracleResults(job.token, job.network, ts, now) :
           batch' = IF price # NoDoc
                      THEN [batch EXCEPT !.pc = "store", !.doc = price]
                      ELSE BatchAdvance([batch EXCEPT !.errors = @ + 1])
  /\ UNCHANGED << cache, prices, tokens, priceQueue, batchQueue, now,
                  handler, worker, batchJobs, requests, historical,
                  batchReply, storer,
                  storedAt, lifecycle >>

BatchCheck ==
  /\ batch.pc = "check"
  /\ LET job == batch.job[1]
         ts == batch.timestamps[batch.i]
         existing == getTokenPrice(prices, job.token, job.network, ts)
     IN  IF existing # NoDoc
           THEN batch' = BatchAdvance([batch EXCEPT !.skipped = @ + 1])
           ELSE \E price \in OracleResults(job.token, job.network, ts, now) :
                  batch' = IF price # NoDoc
                             THEN [batch EXCEPT !.pc = "store", !.doc = price]
                             ELSE BatchAdvance([batch EXCEPT !.errors = @ + 1])
  /\ UNCHANGED << cache, prices, tokens, priceQueue, batchQueue, now,
                  handler, worker, batchJobs, requests, historical,
                  batchReply, storer,
                  storedAt, lifecycle >>

BatchStore ==
  /\ batch.pc = "store"
  /\ prices' = storeTokenPrice(prices, batch.doc[1])
  /\ storedAt' = Stamp(storedAt, batch.doc[1], now)
  /\ batch' = [batch EXCEPT !.pc = "rollup"]
  /\ UNCHANGED << cache, tokens, priceQueue, batchQueue, now, handler,
                  worker, batchJobs, requests, historical, batchReply,
                  storer,
                  lifecycle >>

BatchRollup ==
  /\ batch.pc = "rollup"
  /\ historical' = storeHistoricalPrice(historical, batch.doc[1])
  /\ batch' = BatchAdvance([batch EXCEPT !.processed = @ + 1])
  /\ UNCHANGED << cache, prices, tokens, priceQueue, batchQueue, now, handler,
                  worker, batchJobs, requests, batchReply, storer,
                  storedAt, lifecycle >>

(***************************************************************************)
(* Failures of MongoDB while a worker handles a job.                       *)
(***************************************************************************)
\* replaceOne rejects: storeTokenPrice rethrows, Promise.all rejects and the
\* processor rethrows, while the setEx that was started runs to its end.
WorkerWriteStoreFails ==
  /\ worker.pc \in {"writeApi", "writeInterpolated"}
  /\ "store" \in worker.pending
  /\ worker' = WorkerAfterWrite([worker EXCEPT !.pending = @ \ {"store"},
                                               !.storeFaults = @ + 1])
  /\ UNCHANGED << cache, prices, tokens, priceQueue, batchQueue, now, handler,
                  batch, batchJobs, requests, historical, batchReply, storer,
                  storedAt, lifecycle >>

\* getAllTokens rejects inside: its catch returns [], the token counts as new
\* and addToken, which catches as well, returns false.
WorkerRegistryFails ==
  /\ worker.pc = "registry"
  /\ worker' = Finish([worker EXCEPT !.storeFaults = @ + 1], TRUE)
  /\ UNCHANGED << cache, prices, tokens, priceQueue, batchQueue, now, handler,
                  batch, batchJobs, requests, historical, batchReply, storer,
                  storedAt, lifecycle >>

\* The find of getNearestPrices rejects: its catch returns [], interpolatePrice
\* returns null and the processor returns {success: false}.
WorkerInterpolateFails ==
  /\ worker.pc = "interpolate"
  /\ worker' = Finish([worker EXCEPT !.storeFaults = @ + 1], FALSE)
  /\ UNCHANGED << cache, prices, tokens, priceQueue, batchQueue, now, handler,
                  batch, batchJobs, requests, historical, batchReply, storer,
                  storedAt, lifecycle >>

\* The findOne of getTokenPrice rejects: its catch returns null and the loop
\* goes on as if no record existed.
BatchCheckFails ==
  /\ batch.pc = "check"
  /\ LET job == batch.job[1]
         ts == batch.timestamps[batch.i]
         b == [batch EXCEPT !.storeFaults = @ + 1]
     IN  \E price \in OracleResults(job.token, job.network, ts, now) :
           batch' = IF price # NoDoc
                      THEN [b EXCEPT !.pc = "store", !.doc = price]
                      ELSE BatchAdvance([b EXCEPT !.errors = @ + 1])
  /\ UNCHANGED << cache, prices, tokens, priceQueue, batchQueue, now, handler,
                  worker, batchJobs, requests, historical, batchReply, storer,
                  storedAt, lifecycle >>

\* storeTokenPrice throws: the catch inside the loop counts an error and the
\* loop goes on.
BatchStoreFails ==
  /\ batch.pc = "store"
  /\ batch' = BatchAdvance([batch EXCEPT !.errors = @ + 1, !.storeFaults = @ + 1])
  /\ UNCHANGED << cache, prices, tokens, priceQueue, batchQueue, now, handler,
                  worker, batchJobs, requests, historical, batchReply, storer,
                  storedAt, lifecycle >>

WorkerFault ==
  \/ WorkerWriteStoreFails
  \/ WorkerRegistryFails
  \/ WorkerInterpolateFails
  \/ BatchCheckFails
  \/ BatchStoreFails

(***************************************************************************)
(* Concurrent callers of DatabaseManager.storeTokenPrice: replaceOne on    *)
(* the prices collection, then updateOne on the daily rollup row.          *)
(***************************************************************************)
RECURSIVE StoreCalls(_)
StoreCalls(n) == IF n = 0 THEN 0 ELSE storer[n].calls + StoreCalls(n - 1)

StoreCall(s, priceData) ==
  /\ storer[s].pc = "idle"
  /\ StoreCalls(NumStorers) < MaxStores
  /\ storer' = [storer EXCEPT ![s] =
       [@ EXCEPT !.pc = "replaceOne", !.priceData = Some(priceData),
                 !.calls = @ + 1]]
  /\ UNCHANGED << cache, prices, tokens, priceQueue, batchQueue, now, handler,
                  worker, batch, batchJobs, requests, historical, batchReply,
                  storedAt, lifecycle >>

StorerReplace(s) ==
  /\ storer[s].pc = "replaceOne"
  /\ prices' = storeTokenPrice(prices, storer[s].priceData[1])
  /\ storedAt' = Stamp(storedAt, storer[s].priceData[1], now)
  /\ storer' = [storer EXCEPT ![s] = [@ EXCEPT !.pc = "updateOne"]]
  /\ UNCHANGED << cache, tokens, priceQueue, batchQueue, now, handler, worker,
                  batch, batchJobs, requests, historical, batchReply,
                  lifecycle >>

StorerRollup(s) ==
  /\ storer[s].pc = "updateOne"
  /\ historical' = storeHistoricalPrice(historical, storer[s].priceData[1])
  /\ storer' = [storer EXCEPT ![s] = [@ EXCEPT !.pc = "idle", !.priceData = NoDoc]]
  /\ UNCHANGED << cache, prices, tokens, priceQueue, batchQueue, now, handler,
                  worker, batch, batchJobs, requests, batchReply,
                  storedAt, lifecycle >>

(***************************************************************************)
(* DataLifecycleManager: the daily_historical_fetch cron job.              *)
(***************************************************************************)
\* The orders in which find({}).toArray() may return the registry.
Orderings(S) ==
  {order \in [1..Cardinality(S) -> S] :
     \A i, j \in 1..Cardinality(S) : order[i] = order[j] => i = j}

\* The callback returns: by the end of the loop or by the catch around it.
CronFinish(c, aborted) ==
  [IdleCron EXCEPT !.runs = c.runs,
                   !.log = Append(c.log, [entries |-> c.entries, jobs |-> c.jobs,
                                          today |-> Midnight(now),
                                          aborted |-> aborted])]

CronAdvance(c) ==
  IF Len(c.todo) > 1 THEN [c EXCEPT !.todo = Tail(@)] ELSE CronFinish(c, FALSE)

\* The schedule fires and the callback reads the registry.
CronStart ==
  /\ cron.pc = "idle"
  /\ cron.runs < MaxCronRuns
  /\ \E order \in Orderings(tokens) :
       LET c == [cron EXCEPT !.pc = "loop", !.todo = order, !.entries = order,
                              !.jobs = << >>, !.runs = @ + 1]
       IN  cron' = IF order = << >> THEN CronFinish(c, FALSE) ELSE c
  /\ UNCHANGED << cache, prices, tokens, priceQueue, batchQueue, now, handler,
                  worker, batch, batchJobs, requests, historical, batchReply,
                  storer, storedAt, archived, archiveRuns, cacheStats, sm, conn,
                  services >>

\* One round of the loop.  The registry holds only entries that were added
\* with a creation date, so the lookup of a missing one is never taken.
CronEntry ==
  /\ cron.pc = "loop"
  /\ LET tokenData == Head(cron.todo)
         today == Midnight(now)
         startDate == Midnight(tokenData.creationDate)
         timestampsToFetch == generateDailyTimestamps(startDate, today)
         job == [token |-> tokenData.token, network |-> tokenData.network,
                 startDate |-> timestampsToFetch[1],
                 endDate |-> timestampsToFetch[Len(timestampsToFetch)]]
     IN  IF Len(timestampsToFetch) > 0
           THEN /\ batchQueue' = Append(batchQueue, job)
                /\ cron' = CronAdvance([cron EXCEPT !.jobs = Append(@, job)])
           ELSE /\ batchQueue' = batchQueue
                /\ cron' = CronAdvance(cron)
  /\ UNCHANGED << cache, prices, tokens, priceQueue, now, handler,
                  worker, batch, batchJobs, requests, historical, batchReply,
                  storer, storedAt, archived, archiveRuns, cacheStats, sm, conn,
                  services >>

\* batchQueue.add rejects: the catch around the whole loop logs the error and
\* the callback returns without handling the entries that are left.
CronAddFails ==
  /\ cron.pc = "loop"
  /\ LET tokenData == Head(cron.todo)
     IN  Len(generateDailyTimestamps(Midnight(tokenData.creationDate),
                                     Midnight(now))) > 0
  /\ cron' = CronFinish(cron, TRUE)
  /\ UNCHANGED << cache, prices, tokens, priceQueue, batchQueue, now, handler,
                  worker, batch, batchJobs, requests, historical, batchReply,
                  storer, storedAt, archived, archiveRuns, cacheStats, sm, conn,
                  services >>

(***************************************************************************)
(* DatabaseManager.archiveOldData, called by the data_archival cron job.   *)
(***************************************************************************)
compressionEnabled == TRUE

\* The MongoDB filter {field: {$lt: bound}}: a document without the field
\* does not match.
FieldLt(doc, field, bound) == field \in DOMAIN doc /\ doc[field] < bound

\* find, insertMany into archived and deleteMany with the same filter; the
\* two writes are skipped when find returns nothing.
ArchiveOldData(daysOld) ==
  /\ Len(archiveRuns) < MaxArchiveRuns
  /\ LET cutoffDate == now - daysOld * UnitsPerDay
         oldData == {id \in DOMAIN prices : FieldLt(prices[id], "createdAt", cutoffDate)}
     IN  /\ archived' = archived \cup
                          {[doc |-> prices[id], archivedAt |-> now,
                            compressed |-> compressionEnabled] : id \in oldData}
         /\ prices' = [id \in DOMAIN prices \ oldData |-> prices[id]]
         /\ storedAt' = [id \in DOMAIN storedAt \ oldData |-> storedAt[id]]
         /\ archiveRuns' = Append(archiveRuns,
                                  [daysOld |-> daysOld, cutoffDate |-> cutoffDate,
                                   count |-> Cardinality(oldData)])
  /\ UNCHANGED << cache, tokens, priceQueue, batchQueue, now, handler, worker,
                  batch, batchJobs, requests, historical, batchReply, storer,
                  cron, cacheStats, sm, conn,
                  services >>

\* A day passes.
DayTick ==
  /\ now + UnitsPerDay <= MaxTime + 1 + MaxDays * UnitsPerDay
  /\ now' = now + UnitsPerDay
  /\ UNCHANGED << cache, prices, tokens, priceQueue, batchQueue, handler,
                  worker, batch, batchJobs, requests, historical, batchReply,
                  storer, storedAt, lifecycle >>

(***************************************************************************)
(* StorageManager: the cache operations that keep the cache statistics.    *)
(***************************************************************************)
generatePriceKey(token, network, timestamp) ==
  << "token_price", network, toLowerCase(token),
     IF timestamp # NoTs THEN timestamp ELSE NoTs >>

\* storageStrategies: whether the strategy uses Redis.
StrategyRedis(strategy) == strategy \in {"hot", "warm"}

StrategyTtl(strategy) == IF strategy = "hot" THEN ttlCurrentPrice ELSE ttlHistoricalPrice

\* {...data, cached_at, strategy}
Serialized(data, strategy, clock) ==
  [f \in DOMAIN data \cup {"cached_at", "strategy"} |->
     IF f = "cached_at" THEN clock
     ELSE IF f = "strategy" THEN strategy
     ELSE data[f]]

\* The bucket cache_stats_<day> as updateOne with upsert finds it.
Bucket(stats, clock) ==
  IF Day(clock) \in DOMAIN stats THEN stats[Day(clock)] ELSE EmptyBucket

\* $inc of operations.<operation> and of operations.total on today's bucket.
updateCacheStats(stats, operation, clock) ==
  [statsKey \in DOMAIN stats \cup {Day(clock)} |->
     IF statsKey = Day(clock)
       THEN [Bucket(stats, clock) EXCEPT ![operation] = @ + 1, !.total = @ + 1]
       ELSE stats[statsKey]]

\* The _id updateCacheStats writes: `cache_stats_${today}`.
statsKey(day) == [prefix |-> "cache_stats_", date |-> day]

\* The bounds getCacheStats compares _id with: toISOString().split("T")[0].
DateString(day) == [prefix |-> "", date |-> day]

\* String order of two _id values: a date string starts with a digit, which
\* sorts before the letter c of the prefix cache_stats_.
IdLeq(a, b) ==
  IF a.prefix = b.prefix THEN a.date <= b.date ELSE a.prefix = ""

RECURSIVE SumOf(_, _, _)
SumOf(stats, days, field) ==
  IF days = {} THEN 0
  ELSE LET day == CHOOSE d \in days : TRUE
       IN  stats[day][field] + SumOf(stats, days \ {day}, field)

\* getCacheStats(days): the buckets whose _id lies between the date strings
\* of the start and the end day, and their aggregated counters.
getCacheStats(stats, days, clock) ==
  LET found == {day \in DOMAIN stats :
                  /\ IdLeq(DateString(Day(clock) - days), statsKey(day))
                  /\ IdLeq(statsKey(day), DateString(Day(clock)))}
  IN  [total_operations |-> SumOf(stats, found, "total"),
       operations |-> [op \in {"hit", "miss", "set", "delete", "total"} |->
                         SumOf(stats, found, op)],
       daily_breakdown |-> found]

\* cacheSet up to the await of updateCacheStats; a strategy without Redis
\* returns false before any operation.
SmCacheSet(key, data, strategy) ==
  /\ sm.pc = "idle"
  /\ sm.calls < MaxSmCalls
  /\ IF StrategyRedis(strategy)
       THEN /\ cache' = setEx(cache, key, StrategyTtl(strategy),
                              Serialized(data, strategy, now))
            /\ sm' = [sm EXCEPT !.pc = "stat", !.operation = "set",
                                !.strategy = strategy, !.calls = @ + 1]
       ELSE /\ cache' = cache
            /\ sm' = [sm EXCEPT !.calls = @ + 1]
  /\ UNCHANGED << prices, tokens, priceQueue, batchQueue, now, handler, worker,
                  batch, batchJobs, requests, historical, batchReply, storer,
                  storedAt, archived, archiveRuns, cron, cacheStats, conn,
                  services >>

\* cacheGet up to the await of updateCacheStats.
SmCacheGet(key) ==
  /\ sm.pc = "idle"
  /\ sm.calls < MaxSmCalls
  /\ sm' = [sm EXCEPT !.pc = "stat",
                      !.operation = IF cacheGet(cache, key) = NoDoc THEN "miss" ELSE "hit",
                      !.strategy = "none", !.calls = @ + 1]
  /\ UNCHANGED << cache, prices, tokens, priceQueue, batchQueue, now, handler,
                  worker, batch, batchJobs, requests, historical, batchReply,
                  storer, storedAt, archived, archiveRuns, cron, cacheStats,
                  conn,
                  services >>

\* cacheDelete up to the await of updateCacheStats.
SmCacheDelete(key) ==
  /\ sm.pc = "idle"
  /\ sm.calls < MaxSmCalls
  /\ cache' = [k \in DOMAIN cache \ {key} |-> cache[k]]
  /\ sm' = [sm EXCEPT !.pc = "stat", !.operation = "delete",
                      !.strategy = "none", !.calls = @ + 1]
  /\ UNCHANGED << prices, tokens, priceQueue, batchQueue, now, handler, worker,
                  batch, batchJobs, requests, historical, batchReply, storer,
                  storedAt, archived, archiveRuns, cron, cacheStats, conn,
                  services >>

\* The updateOne of updateCacheStats, after which the operation returns.
SmUpdateCacheStats ==
  /\ sm.pc = "stat"
  /\ cacheStats' = updateCacheStats(cacheStats, sm.operation, now)
  /\ sm' = [sm EXCEPT !.pc = "idle"]
  /\ UNCHANGED << cache, prices, tokens, priceQueue, batchQueue, now, handler,
                  worker, batch, batchJobs, requests, historical, batchReply,
                  storer, storedAt, archived, archiveRuns, cron, conn,
                  services >>

(***************************************************************************)
(* Shutdown: process.on("SIGINT") and the default disposition of SIGTERM.  *)
(***************************************************************************)
Connections == {"cache", "store", "priceQueue", "batchQueue"}

\* The process runs: nothing of the service executes after its exit.
Alive == ~ conn.exited

\* The SIGINT handler up to its await: quit and close are called on the four
\* connections in one Promise.all, and stop() stops the cron jobs before it
\* returns.
Sigint ==
  /\ Alive
  /\ conn.signal = "none"
  /\ conn' = [conn EXCEPT !.signal = "SIGINT", !.cache = "closing",
                          !.store = "closing", !.priceQueue = "closing",
                          !.batchQueue = "closing", !.cron = "stopped"]
  /\ UNCHANGED << cache, prices, tokens, priceQueue, batchQueue, now, handler,
                  worker, batch, batchJobs, requests, historical, batchReply,
                  storer, storedAt, archived, archiveRuns, cron, cacheStats,
                  sm,
                  services >>

\* No handler is registered for SIGTERM: the process ends at once.
Sigterm ==
  /\ Alive
  /\ conn.signal = "none"
  /\ conn' = [conn EXCEPT !.signal = "SIGTERM", !.exited = TRUE]
  /\ UNCHANGED << cache, prices, tokens, priceQueue, batchQueue, now, handler,
                  worker, batch, batchJobs, requests, historical, batchReply,
                  storer, storedAt, archived, archiveRuns, cron, cacheStats,
                  sm,
                  services >>

\* One of the promises of the Promise.all resolves.
CloseDone(c) ==
  /\ Alive
  /\ conn[c] = "closing"
  /\ conn' = [conn EXCEPT ![c] = "closed"]
  /\ UNCHANGED << cache, prices, tokens, priceQueue, batchQueue, now, handler,
                  worker, batch, batchJobs, requests, historical, batchReply,
                  storer, storedAt, archived, archiveRuns, cron, cacheStats,
                  sm,
                  services >>

\* The Promise.all has resolved: process.exit(0).
Exit ==
  /\ Alive
  /\ conn.signal = "SIGINT"
  /\ \A c \in Connections : conn[c] = "closed"
  /\ conn' = [conn EXCEPT !.exited = TRUE]
  /\ UNCHANGED << cache, prices, tokens, priceQueue, batchQueue, now, handler,
                  worker, batch, batchJobs, requests, historical, batchReply,
                  storer, storedAt, archived, archiveRuns, cron, cacheStats,
                  sm,
                  services >>

\* POST /api/batch/historical after batchQueue.close() was called: add
\* rejects and the catch of the endpoint answers 500.
BatchEnqueueRejected ==
  /\ batchJobs < MaxBatchJobs
  /\ batchJobs' = batchJobs + 1
  /\ batchReply' = 500
  /\ UNCHANGED << cache, prices, tokens, priceQueue, batchQueue, now, handler,
                  worker, batch, requests, historical, storer,
                  storedAt, lifecycle >>

\* The updateOne of storeHistoricalPrice rejects: its catch returns false and
\* storeTokenPrice returns true.
BatchRollupFails ==
  /\ batch.pc = "rollup"
  /\ batch' = BatchAdvance([batch EXCEPT !.processed = @ + 1, !.storeFaults = @ + 1])
  /\ UNCHANGED << cache, prices, tokens, priceQueue, batchQueue, now, handler,
                  worker, batchJobs, requests, historical, batchReply, storer,
                  storedAt, lifecycle >>

(***************************************************************************)
(* A direct caller of InterpolationEngine.interpolatePrice.                *)
(***************************************************************************)
\* The rows interpolatePrice keeps after its time-gap filter.
filteredPrices(coll, token, network, timestamp) ==
  FilterSeq(getNearestPrices(coll, token, network, timestamp, maxDataPoints),
            timestamp, 1)

EngineCall(token, network, timestamp) ==
  /\ engine.calls < MaxEngineCalls
  /\ engine' = [calls |-> engine.calls + 1,
                timestamp |-> timestamp,
                filteredPrices |-> filteredPrices(prices, token, network, timestamp),
                result |-> interpolatePrice(prices, token, network, timestamp)]
  /\ UNCHANGED << cache, prices, tokens, priceQueue, batchQueue, now, handler,
                  worker, batch, batchJobs, requests, historical, batchReply,
                  storer, storedAt, archived, archiveRuns, cron, cacheStats,
                  sm, conn, lm, archiver >>

(***************************************************************************)
(* Specifications.  Spec: concurrent POST /api/tokens requests.  Within    *)
(* the window of a run no cache entry reaches its TTL.                     *)
(***************************************************************************)
HandlerRun(h) ==
  \/ CacheGet(h)
  \/ StoreGet(h)
  \/ WarmSet(h)
  \/ Oracle(h)
  \/ WriteCache(h)
  \/ WriteStore(h)
  \/ Rollup(h)
  \/ Registry(h)
  \/ Interpolate(h)
  \/ Enqueue(h)

Next ==
  \/ \E h \in Handlers, token \in TokenInputs, network \in NetworkInputs,
        timestamp \in {NoTs} \cup Times : Receive(h, token, network, timestamp)
  \/ \E h \in Handlers : HandlerRun(h)

Spec == Init /\ [][Next]_vars

(***************************************************************************)
(* SpecFaults: requests with malformed fields and failures of Redis,       *)
(* MongoDB and the oracle during a request.  The handler slots are         *)
(* interchangeable, so a request takes the lowest free one.                *)
(***************************************************************************)
NextFaults ==
  \/ \E h \in Handlers, token \in {"0xab", "0xabc"},
        network \in {"ethereum", NotAString},
        timestamp \in {MaxTime - 1, BadTs} :
       /\ \A other \in Handlers :
            other < h => handler[other].pc \notin {"init", "done"}
       /\ Receive(h, token, network, timestamp)
  \/ \E h \in Handlers : HandlerRun(h)
  \/ \E h \in Handlers : HandlerFault(h)

SpecFaults == Init /\ [][NextFaults]_vars

(***************************************************************************)
(* SpecWorkers: the requests together with the price-processing worker,    *)
(* POST /api/batch/historical and the batch-processing worker.             *)
(***************************************************************************)
WorkerStep ==
  \/ WorkerTake
  \/ WorkerFetch
  \/ WorkerWriteCache
  \/ WorkerWriteStore
  \/ WorkerRollup
  \/ WorkerRegistry
  \/ WorkerInterpolate

BatchStep ==
  \/ \E startDate \in Times : BatchEnqueue("0xab", "ethereum", startDate, MaxTime)
  \/ BatchTake
  \/ BatchCheck
  \/ BatchStore
  \/ BatchRollup

\* The requests are for the current price or for the last instant.
NextWorkers ==
  \/ \E h \in Handlers, token \in {"0xab", "0xAB"}, timestamp \in {NoTs, MaxTime} :
       Receive(h, token, "ethereum", timestamp)
  \/ \E h \in Handlers : HandlerRun(h)
  \/ WorkerStep
  \/ BatchStep

SpecWorkers == Init /\ [][NextWorkers]_vars

(***************************************************************************)
(* SpecJobFaults: POST /api/batch/historical with any fields, requests for *)
(* the last instant, and the two workers with failures of MongoDB.         *)
(***************************************************************************)
NextJobFaults ==
  \/ \E h \in Handlers : Receive(h, "0xab", "ethereum", MaxTime)
  \/ \E h \in Handlers : HandlerRun(h)
  \/ \E token \in {"0xab", "0xabc", ""}, network \in {"ethereum", "solana"},
        startDate \in {MaxTime - 1, MaxTime} :
       BatchEnqueue(token, network, startDate, MaxTime - 1)
  \/ WorkerStep
  \/ BatchTake
  \/ BatchCheck
  \/ BatchStore
  \/ BatchRollup
  \/ WorkerFault

SpecJobFaults == Init /\ [][NextJobFaults]_vars

(***************************************************************************)
(* SpecRollup: concurrent storeTokenPrice calls with oracle records of one *)
(* token.                                                                  *)
(***************************************************************************)
StoreUsd == {10, 20}

NextRollup ==
  \/ \E s \in Storers, timestamp \in (MaxTime - 2)..MaxTime,
        usd \in StoreUsd :
       /\ \A other \in Storers : other < s => storer[other].pc # "idle"
       /\ StoreCall(s, AlchemyRecord("0xab", "ethereum", timestamp, usd, now))
  \/ \E s \in Storers : StorerReplace(s)
  \/ \E s \in Storers : StorerRollup(s)

SpecRollup == Init /\ [][NextRollup]_vars

(***************************************************************************)
(* Properties.                                                             *)
(***************************************************************************)
TierOrder == << "cache", "store", "oracle", "interpolation", "queue" >>

LastTier(h) == handler[h].tiers[Len(handler[h].tiers)]

\* C1: the tiers of a request run in the order cache, store, oracle,
\* interpolation, queue; a tier is consulted only after every earlier tier
\* yielded nothing, a reply with data ends at the tier that yielded it, and a
\* job is enqueued only after all four earlier tiers yielded nothing.
TiersRunInOrder ==
  \A h \in Handlers :
    LET t == handler[h].tiers
    IN  /\ Len(t) <= Len(TierOrder)
        /\ \A i \in 1..Len(t) :
             /\ t[i].tier = TierOrder[i]
             /\ i < Len(t) => ~ t[i].hit
        /\ handler[h].reply.status = 200 => (t # << >> /\ LastTier(h).hit)
        /\ handler[h].enqueued # << >> => Len(t) = Len(TierOrder)

\* A request fell through all five tiers.
C1Witness ==
  \E h \in Handlers :
    /\ handler[h].pc = "done"
    /\ Len(handler[h].tiers) = Len(TierOrder)
    /\ handler[h].reply.queued

ProvenanceFlags(reply) ==
  {f \in {"cached", "fromDB", "fromAPI", "interpolated"} : reply[f]}

FlagOfTier(tier) ==
  CASE tier = "cache" -> "cached"
    [] tier = "store" -> "fromDB"
    [] tier = "oracle" -> "fromAPI"
    [] OTHER -> "interpolated"

\* C2: a reply that carries data has exactly one provenance flag set, the
\* flag of the tier that produced the reply in this call.
ExactlyOneProvenanceFlag ==
  \A h \in Handlers :
    (handler[h].pc = "done" /\ handler[h].reply.data # NoDoc)
      => ProvenanceFlags(handler[h].reply) = {FlagOfTier(LastTier(h).tier)}

HasAuthoritative(coll, token, network, timestamp) ==
  \E id \in DOMAIN coll :
    /\ coll[id].token = toLowerCase(token)
    /\ coll[id].network = network
    /\ coll[id].timestamp = timestamp
    /\ ~ coll[id].interpolated

\* C3: no request is answered from the cache with an interpolated value while
\* the store holds a non-interpolated record for the same key.
NoInterpolatedCacheHitOverAuthoritative ==
  [][\A h \in Handlers :
       (/\ handler[h].pc = "cache"
        /\ handler'[h].pc = "done"
        /\ handler'[h].reply.cached
        /\ handler'[h].reply.interpolated)
         => ~ HasAuthoritative(prices, handler[h].token, handler[h].network,
                               handler[h].timestamp)]_vars

\* C4: once a non-interpolated record is live for a key, every later state
\* holds a non-interpolated record for that key.
AuthoritativeRecordStays ==
  [][\A id \in DOMAIN prices :
       ~ prices[id].interpolated
         => HasAuthoritative(prices', prices[id].token, prices[id].network,
                             prices[id].timestamp)]_vars

\* C5: a worker whose job names a (token, network, timestamp) that the store
\* already holds makes no oracle call and no store write for it: the
\* price-processing worker in its running job and in every finished job, the
\* batch-processing worker for every timestamp of its job that it skipped.
WorkersSkipExistingRecords ==
  /\ worker.existed => (worker.oracleCalls = 0 /\ worker.wrote = {})
  /\ batch.oracleCalls + batch.skipped <= Len(batch.timestamps)
  /\ \A i \in 1..Len(batch.runs) :
       batch.runs[i].oracleCalls <= batch.runs[i].processed + batch.runs[i].errors
  /\ \A i \in 1..Len(worker.log) :
       worker.log[i].existed
         => (worker.log[i].oracleCalls = 0 /\ worker.log[i].wrote = {})

\* C6: two runs of the price-processing worker with the identical payload, the
\* oracle returning a price both times, leave exactly one new record.
WorkerTwiceOneRecord ==
  \A i, j \in 1..Len(worker.log) :
    (/\ i < j
     /\ worker.log[i].data = worker.log[j].data
     /\ worker.log[i].fetched
     /\ worker.log[j].fetched)
      => Cardinality(worker.log[i].wrote \cup worker.log[j].wrote) = 1

\* C7: the live prices collection holds exactly one row for every
\* (lowercase token, network, timestamp) that was stored.
OneRowPerKey ==
  \A a, b \in DOMAIN prices :
    (/\ toLowerCase(prices[a].token) = toLowerCase(prices[b].token)
     /\ prices[a].network = prices[b].network
     /\ prices[a].timestamp = prices[b].timestamp)
      => a = b

\* C8: after storeTokenPrice(R), getTokenPrice(R.token, R.network, R.timestamp)
\* returns a record with the token, network, timestamp and usd of R.
StoreThenGetRoundTrip ==
  [][\A id \in DOMAIN prices' :
       (id \notin DOMAIN prices \/ prices'[id] # prices[id])
         => LET R == prices'[id]
                got == getTokenPrice(prices', R.token, R.network, R.timestamp)
            IN  /\ got # NoDoc
                /\ got[1].token = R.token
                /\ got[1].network = R.network
                /\ got[1].timestamp = R.timestamp
                /\ got[1].usd = R.usd]_vars

Acceptable(doc) ==
  doc.interpolated
    => (/\ RLeq(minConfidenceThreshold, doc.confidence)
        /\ RLess(RZero, doc.usd))

\* C9: every record of the interpolation engine, wherever it is held (a
\* handler or the worker, a reply, the cache, the store), has confidence >=
\* minConfidenceThreshold and usd > 0; a request whose interpolation was
\* declined writes nothing.
InterpolatedRecordsAcceptable ==
  /\ \A id \in DOMAIN prices : Acceptable(prices[id])
  /\ \A key \in DOMAIN cache : Acceptable(cache[key].value)
  /\ \A h \in Handlers :
       /\ handler[h].doc # NoDoc => Acceptable(handler[h].doc[1])
       /\ handler[h].reply.data # NoDoc => Acceptable(handler[h].reply.data[1])
       /\ (Len(handler[h].tiers) >= 4 /\ ~ handler[h].tiers[4].hit)
            => handler[h].writes = {}
  /\ worker.doc # NoDoc => Acceptable(worker.doc[1])

\* An extrapolated record was written to the store.
C9Witness ==
  \E id \in DOMAIN prices :
    prices[id].interpolated /\ prices[id].method = "extrapolation"

\* C10: a request that found nothing in cache, store, oracle and interpolation
\* adds exactly one job with its {token, network, timestamp} and priority 10
\* (no timestamp) or 1 (timestamp), is answered 202 with queued = true, and
\* writes neither cache nor store.
QueuedRequestAddsOneJob ==
  \A h \in Handlers :
    LET st == handler[h]
        declined == Len(st.tiers) >= 4 /\ ~ st.tiers[4].hit
    IN  /\ (st.pc = "done" /\ declined) => st.reply.status = 202
        /\ st.reply.status = 202 =>
             /\ declined
             /\ st.reply.queued
             /\ st.reply.data = NoDoc
             /\ st.writes = {}
             /\ st.enqueued =
                  << [token |-> st.token, network |-> st.network,
                      timestamp |-> st.timestamp,
                      priority |-> IF st.timestamp = NoTs THEN 10 ELSE 1] >>
             /\ \E i \in 1..Len(priceQueue) : priceQueue[i] = st.enqueued[1]
        /\ st.reply.status # 202 => st.enqueued = << >>

\* A request for the current price and one for a past instant were queued.
C10Witness ==
  /\ Len(priceQueue) = 2
  /\ priceQueue[1].priority # priceQueue[2].priority
  /\ \E h \in Handlers : handler[h].reply.status = 202

\* C11: a request whose store lookup failed is answered 5xx, and it calls
\* neither the oracle nor the interpolation engine, enqueues no job and
\* writes nothing to the cache.
StoreFailureEndsRequest ==
  \A h \in Handlers :
    "store" \in handler[h].faults
      => /\ handler[h].pc = "done" => handler[h].reply.status = 500
         /\ Len(handler[h].tiers) <= 2
         /\ handler[h].enqueued = << >>
         /\ "cache" \notin handler[h].writes

\* C12: a request whose only failures are cache failures is not answered with
\* an error; after a failed cache get it went on to the store tier, and after
\* a failed cache set its reply carries the record it had found.
CacheFailureKeepsOutcome ==
  \A h \in Handlers :
    LET st == handler[h]
    IN  (st.pc = "done" /\ st.faults # {} /\ st.faults \subseteq {"cacheGet", "cacheSet"})
          => /\ st.reply.status \in {200, 202}
             /\ "cacheGet" \in st.faults => Len(st.tiers) >= 2
             /\ "cacheSet" \in st.faults => st.reply.data = st.doc

\* C13: a request whose oracle call failed, and whose cache writes did not,
\* is never answered with an error: it went on to the interpolation tier and
\* ends with the interpolated reply or, if the interpolation declined, with
\* the 202 queued reply.
OracleFailureFallsThrough ==
  \A h \in Handlers :
    LET st == handler[h]
    IN  ("oracle" \in st.faults /\ "cacheSet" \notin st.faults)
          => /\ st.reply.status \in {0, 200, 202}
             /\ Len(st.tiers) >= 3
             /\ st.tiers[3] = Tier("oracle", NoDoc)
             /\ st.pc \notin {"writeApi", "registry"}
             /\ st.pc = "done"
                  => /\ Len(st.tiers) >= 4
                     /\ IF st.tiers[4].hit
                          THEN st.reply.status = 200 /\ st.reply.interpolated
                          ELSE st.reply.status = 202 /\ st.reply.queued

\* The oracle failed, the interpolation declined and the request was queued.
C13Witness ==
  \E h \in Handlers :
    /\ handler[h].pc = "done"
    /\ "oracle" \in handler[h].faults
    /\ handler[h].reply.status = 202

\* C14: a job of the price-processing worker or of the batch-processing
\* worker during which a store read or write failed ends as failed.
StoreFailureFailsJob ==
  /\ \A i \in 1..Len(worker.log) :
       worker.log[i].storeFaults > 0 => worker.log[i].outcome = "failed"
  /\ \A i \in 1..Len(batch.runs) :
       batch.runs[i].storeFaults > 0 => batch.runs[i].outcome = "failed"

RequestKey(h) ==
  generateCacheKey(handler[h].token, handler[h].network, handler[h].timestamp)

\* C15: a request answered from the store (fromDB) has written the record it
\* found to the cache under its key with the historicalPrice TTL.
StoreHitWarmsCache ==
  \A h \in Handlers :
    (handler[h].pc = "done" /\ handler[h].reply.fromDB)
      => /\ RequestKey(h) \in DOMAIN cache
         /\ cache[RequestKey(h)] =
              [value |-> handler[h].doc[1], ttl |-> ttlHistoricalPrice]

\* C16: a request answered by the oracle (fromAPI) has written the record to
\* the store and to the cache, with the currentPrice TTL when it has no
\* timestamp and the historicalPrice TTL when it has one.
OracleWriteThroughTtl ==
  \A h \in Handlers :
    (handler[h].pc = "done" /\ handler[h].reply.fromAPI)
      => /\ handler[h].writes = {"cache", "store"}
         /\ DocId(handler[h].doc[1]) \in DOMAIN prices
         /\ RequestKey(h) \in DOMAIN cache
         /\ cache[RequestKey(h)].ttl =
              IF handler[h].timestamp = NoTs
                THEN ttlCurrentPrice ELSE ttlHistoricalPrice

\* C17: a received request either has a token that matches the regex and a
\* supported network and enters the pipeline, or is answered 400 with no
\* tier consulted and cache, store and queues unchanged.
InvalidRequestAnswered400 ==
  [][\A h \in Handlers :
       (requests' = requests + 1 /\ handler'[h] # handler[h])
         => \/ /\ handler'[h].pc = "cache"
               /\ tokenRegex(handler'[h].token)
               /\ toLowerCase(handler'[h].network) \in supported
            \/ /\ handler'[h].pc = "done"
               /\ handler'[h].reply.status = 400
               /\ handler'[h].tiers = << >>
               /\ UNCHANGED << cache, prices, priceQueue, batchQueue >>]_vars

\* C18: a request with an unparseable timestamp, in a run without failures,
\* is answered 400, writes nothing to the cache or the store and enqueues no
\* job.
UnparseableTimestampRejected ==
  \A h \in Handlers :
    (handler[h].timestamp = BadTs /\ handler[h].faults = {})
      => /\ handler[h].pc = "done" => handler[h].reply.status = 400
         /\ handler[h].writes = {}
         /\ handler[h].enqueued = << >>

ValidBatchJob(job) ==
  /\ tokenRegex(job.token)
  /\ toLowerCase(job.network) \in supported
  /\ job.startDate <= job.endDate

\* C19: POST /api/batch/historical either enqueues one job whose token
\* matches the regex, whose network is supported and whose startDate <=
\* endDate, or replies 400 and leaves the batch queue unchanged.
BatchRequestValidated ==
  [][batchJobs' = batchJobs + 1
       => IF batchReply' = 200
            THEN /\ Len(batchQueue') = Len(batchQueue) + 1
                 /\ ValidBatchJob(batchQueue'[Len(batchQueue')])
            ELSE /\ batchReply' = 400
                 /\ batchQueue' = batchQueue]_vars

\* C20: every daily rollup row has min_price <= last_price <= max_price and
\* count equal to the length of its prices array.
RollupRowsConsistent ==
  \A key \in DOMAIN historical :
    LET row == historical[key]
    IN  /\ RLeq(row.min_price, row.last_price)
        /\ RLeq(row.last_price, row.max_price)
        /\ row.count = Len(row.prices)

\* A row that took two appends at different prices while another
\* storeTokenPrice call for the same day is between its two writes.
C20Witness ==
  \E key \in DOMAIN historical :
    /\ historical[key].count >= 2
    /\ RLess(historical[key].min_price, historical[key].max_price)
    /\ \E s \in Storers :
         /\ storer[s].pc = "updateOne"
         /\ HistoricalKey(storer[s].priceData[1]) = key

\* C21: getTokenPriceWithRetry does not retry a null result: once
\* getTokenPrice has been called for a job and has not returned a price, the
\* worker does not call it again for that job, so no job sees more than one
\* call (getTokenPrice never throws).
NullResultNotRetried ==
  /\ worker.pc = "fetch" => worker.oracleCalls = 0
  /\ \A i \in 1..Len(worker.log) : worker.log[i].oracleCalls <= 1

DailySeries(job) == generateDailyTimestamps(job.startDate, job.endDate)

WithinRange(job, timestamps) ==
  /\ \A i \in 1..Len(timestamps) :
       /\ timestamps[i] = Midnight(timestamps[i])
       /\ job.startDate <= timestamps[i]
       /\ timestamps[i] <= job.endDate
  /\ \A i \in 1..(Len(timestamps) - 1) :
       timestamps[i + 1] = timestamps[i] + UnitsPerDay
  /\ job.startDate > job.endDate => timestamps = << >>

\* C22: for every historical-batch job in the queue or taken by the worker,
\* the generated timestamps are at UTC midnight, one day apart and within
\* startDate..endDate, and there is none when startDate is after endDate.
BatchTimestampsWithinRange ==
  /\ \A i \in 1..Len(batchQueue) :
       WithinRange(batchQueue[i], DailySeries(batchQueue[i]))
  /\ batch.pc # "idle" => WithinRange(batch.job[1], batch.timestamps)

StoredPairs == {<< prices[id].token, prices[id].network >> : id \in DOMAIN prices}

OfPair(pair) ==
  {id \in DOMAIN prices :
     prices[id].token = pair[1] /\ prices[id].network = pair[2]}

\* C26: for every (token, network) pair with a stored record, getTokenPrice
\* without a timestamp returns a record of that pair with the greatest
\* timestamp; with a timestamp it returns the record of the pair with exactly
\* that timestamp, or nothing when there is none.
GetPriceLatestOrExact ==
  \A pair \in StoredPairs :
    LET latest == getTokenPrice(prices, pair[1], pair[2], NoTs)
    IN  /\ latest # NoDoc
        /\ latest[1].token = pair[1] /\ latest[1].network = pair[2]
        /\ \A id \in OfPair(pair) : prices[id].timestamp <= latest[1].timestamp
        /\ \A t \in Times \cup {BadTs} :
             LET exact == getTokenPrice(prices, pair[1], pair[2], t)
                 same == {id \in OfPair(pair) : prices[id].timestamp = t}
             IN  IF same = {} THEN exact = NoDoc
                 ELSE exact # NoDoc /\ exact[1] \in {prices[id] : id \in same}

KeyTimestamps == {NoTs, CurrentLiteral, BadTs} \cup Times

\* C27: the cache key of a received request is shared by exactly the
\* requests with the same network, the same token up to letter case and the
\* same timestamp (or both without timestamp).
CacheKeySeparatesRequests ==
  \A h \in Handlers :
    tokenRegex(handler[h].token)
      => \A token \in TokenInputs, timestamp \in KeyTimestamps :
           (generateCacheKey(token, handler[h].network, timestamp) = RequestKey(h))
             <=> (/\ toLowerCase(token) = toLowerCase(handler[h].token)
                  /\ timestamp = handler[h].timestamp)

(***************************************************************************)
(* SpecCron: the daily_historical_fetch cron job over a registry of two    *)
(* tokens, together with the batch-processing worker, on a deployment      *)
(* whose prices collection starts empty.                                   *)
(***************************************************************************)
CronRegistry ==
  {[token |-> "0xab", network |-> "ethereum", creationDate |-> CreationDate],
   [token |-> "0xab", network |-> "polygon", creationDate |-> CreationDate + 1]}

NextCron ==
  \/ CronStart
  \/ CronEntry
  \/ CronAddFails
  \/ BatchTake
  \/ BatchCheck
  \/ BatchStore
  \/ BatchRollup

InitCron == Boot(CronRegistry, << >>) /\ prices = EmptyMap

SpecCron == InitCron /\ [][NextCron]_vars

RunSize(run) == Len(generateDailyTimestamps(run.job.startDate, run.job.endDate))

DailyFetchCoversRegistry ==
  \A r \in 1..Len(cron.log) :
    LET run == cron.log[r]
    IN  \A e \in 1..Len(run.entries) :
          LET entry == run.entries[e]
              mine == {j \in 1..Len(run.jobs) :
                         /\ run.jobs[j].token = entry.token
                         /\ run.jobs[j].network = entry.network}
          IN  /\ Cardinality(mine) = 1
              /\ \A j \in mine :
                   /\ run.jobs[j].startDate = Midnight(entry.creationDate)
                   /\ run.jobs[j].endDate = run.today

(***************************************************************************)
(* SpecArchive: storeTokenPrice calls, days passing and runs of            *)
(* archiveOldData.                                                         *)
(***************************************************************************)
NextArchive ==
  \/ \E s \in Storers, timestamp \in (MaxTime - 1)..MaxTime :
       /\ \A other \in Storers : other < s => storer[other].pc # "idle"
       /\ StoreCall(s, AlchemyRecord("0xab", "polygon", timestamp, 20, now))
  \/ \E s \in Storers : StorerReplace(s)
  \/ \E s \in Storers : StorerRollup(s)
  \/ DayTick
  \/ \E daysOld \in 1..MaxDays : ArchiveOldData(daysOld)

SpecArchive == Boot({}, << >>) /\ [][NextArchive]_vars

\* C25: a run of archiveOldData(d) moves every record that storeTokenPrice
\* stored more than d days before the run out of prices and into archived,
\* with archivedAt and the compressed flag, and returns their number.
ArchiveMovesOldRecords ==
  [][Len(archiveRuns') > Len(archiveRuns) =>
       LET run == archiveRuns'[Len(archiveRuns')]
           due == {id \in DOMAIN prices : storedAt[id] < run.cutoffDate}
       IN  /\ \A id \in due :
                /\ id \notin DOMAIN prices'
                /\ [doc |-> prices[id], archivedAt |-> now,
                    compressed |-> compressionEnabled] \in archived'
           /\ run.count = Cardinality(due)]_vars

(***************************************************************************)
(* SpecStats: POST /api/tokens requests, the cache operations of           *)
(* StorageManager and days passing.                                        *)
(***************************************************************************)
NextStats ==
  \/ \E h \in Handlers, timestamp \in {NoTs, MaxTime} :
       Receive(h, "0xab", "ethereum", timestamp)
  \/ \E h \in Handlers : HandlerRun(h)
  \/ \E strategy \in {"hot", "cold"} :
       SmCacheSet(generatePriceKey("0xab", "ethereum", NoTs),
                  AlchemyRecord("0xab", "ethereum", NoTs, 20, now), strategy)
  \/ SmCacheGet(generatePriceKey("0xab", "ethereum", NoTs))
  \/ SmCacheDelete(generatePriceKey("0xab", "ethereum", NoTs))
  \/ SmUpdateCacheStats
  \/ DayTick

SpecStats == Boot({}, << >>) /\ [][NextStats]_vars

\* C28: every cache get, set and delete increments the matching counter of
\* today's statistics bucket (a get: hit or miss), and the bucket's total is
\* the sum of its hit, miss, set and delete counters.
CacheOpsCounted ==
  [][LET before == Bucket(cacheStats, now')
         after == Bucket(cacheStats', now')
     IN  /\ (\E h \in Handlers : CacheGet(h))
              => after.hit + after.miss = before.hit + before.miss + 1
         /\ (\E h \in Handlers : WarmSet(h))
              => after.set = before.set + 1
         /\ (sm.pc = "stat" /\ sm'.pc = "idle")
              => after[sm.operation] = before[sm.operation] + 1
         /\ after.total = after.hit + after.miss + after.set + after.delete]_vars

(***************************************************************************)
(* SpecRepeat: requests for one key on a server that starts with a job     *)
(* for that key waiting in the price-processing queue, together with the   *)
(* price-processing worker.                                                *)
(***************************************************************************)
NextRepeat ==
  \/ \E h \in Handlers : Receive(h, "0xab", "ethereum", MaxTime - 1)
  \/ \E h \in Handlers : HandlerRun(h)
  \/ WorkerStep

SpecRepeat ==
  Boot({}, << PriceJob("0xab", "ethereum", MaxTime - 1) >>) /\ [][NextRepeat]_vars

\* C29: when a request arrives for the key for which the previous request
\* returned data, the cache still holds that key with the usd that was
\* returned, so that the request is answered from the cache with the same usd
\* and without a call of the oracle.
RepeatAnsweredFromCache ==
  [][\A h \in Handlers :
       (/\ handler[h].pc = "done"
        /\ handler[h].reply.data # NoDoc
        /\ handler'[h].pc = "cache"
        /\ generateCacheKey(handler'[h].token, handler'[h].network,
                            handler'[h].timestamp) = RequestKey(h))
         => /\ RequestKey(h) \in DOMAIN cache
            /\ cache[RequestKey(h)].value.usd = handler[h].reply.data[1].usd]_vars

(***************************************************************************)
(* SpecShutdown: a signal arrives while POST /api/batch/historical is      *)
(* served and the batch-processing worker runs.  The server keeps          *)
(* listening and the worker keeps its own connection to the queue until    *)
(* the process exits; an operation on a closed connection fails.           *)
(***************************************************************************)
NextShutdown ==
  \/ Sigint
  \/ Sigterm
  \/ \E c \in Connections : CloseDone(c)
  \/ Exit
  \/ /\ Alive
     /\ conn.batchQueue = "open"
     /\ \E startDate \in Times : BatchEnqueue("0xab", "ethereum", startDate, MaxTime)
  \/ Alive /\ conn.batchQueue # "open" /\ BatchEnqueueRejected
  \/ Alive /\ BatchTake
  \/ Alive /\ conn.store # "closed" /\ BatchCheck
  \/ Alive /\ conn.store # "closed" /\ BatchStore
  \/ Alive /\ conn.store # "closed" /\ BatchRollup
  \/ Alive /\ conn.store = "closed" /\ BatchCheckFails
  \/ Alive /\ conn.store = "closed" /\ BatchStoreFails
  \/ Alive /\ conn.store = "closed" /\ BatchRollupFails

SpecShutdown == Boot({}, << >>) /\ [][NextShutdown]_vars

\* C30: after a signal the process exits only with both queues, the store and
\* the cache closed and the cron jobs stopped; the store and the cache start
\* to close only when both queues are closed and the cron jobs are stopped;
\* no request is accepted after the signal; and no step of a worker meets a
\* closed store.
ShutdownOrdered ==
  /\ conn.exited
       => /\ \A c \in Connections : conn[c] = "closed"
          /\ conn.cron = "stopped"
  /\ (conn.store # "open" \/ conn.cache # "open")
       => /\ conn.priceQueue = "closed"
          /\ conn.batchQueue = "closed"
          /\ conn.cron = "stopped"
  /\ conn.signal # "none" => batchReply # 500
  /\ batch.storeFaults = 0
  /\ \A i \in 1..Len(batch.runs) : batch.runs[i].storeFaults = 0

(***************************************************************************)
(* SpecEngine: interpolatePrice called on stores of up to three records    *)
(* of one token, spread over more than the time-gap window.                *)
(***************************************************************************)
EngineTimes == 1..EngineSpan
EngineUsd == {10, 20, 40}

EngineStores ==
  UNION {[{<< "0xab", "ethereum", t >> : t \in S} -> EngineUsd] :
           S \in {T \in SUBSET EngineTimes : Cardinality(T) <= 3}}

EngineDocs(usdOf) ==
  [id \in DOMAIN usdOf |-> AlchemyRecord(id[1], id[2], id[3], usdOf[id], id[3])]

NextEngine ==
  \E timestamp \in EngineTimes : EngineCall("0xab", "ethereum", timestamp)

InitEngine == BootWith({EngineDocs(usdOf) : usdOf \in EngineStores}, {}, << >>)

SpecEngine == InitEngine /\ [][NextEngine]_vars

\* The stored records of the token at another instant than the target.
Neighbours(target) ==
  {prices[id] : id \in {i \in Matching(prices, "0xab", "ethereum") :
                          prices[i].timestamp # target}}

InGap(target) ==
  {p \in Neighbours(target) :
     Abs(target - p.timestamp) * HoursPerUnit <= maxTimeGapHours}

\* C31: interpolatePrice returns null whenever fewer than 2 stored neighbours
\* of the target lie within maxTimeGapHours of it, however many lie outside.
EngineDeclinesSparseWindow ==
  (engine.calls > 0 /\ Cardinality(InGap(engine.timestamp)) < 2)
    => engine.result = NoDoc

C31Witness ==
  /\ engine.calls > 0
  /\ Cardinality(InGap(engine.timestamp)) = 1
  /\ Cardinality(Neighbours(engine.timestamp) \ InGap(engine.timestamp)) = 2
  /\ engine.result = NoDoc

BeforeInGap(target) == {p \in InGap(target) : p.timestamp < target}
AfterInGap(target) == {p \in InGap(target) : p.timestamp > target}
LatestBefore(target) ==
  CHOOSE p \in BeforeInGap(target) :
    \A q \in BeforeInGap(target) : q.timestamp <= p.timestamp
EarliestAfter(target) ==
  CHOOSE p \in AfterInGap(target) :
    \A q \in AfterInGap(target) : p.timestamp <= q.timestamp

REq(x, y) == x.n * y.d = y.n * x.d

\* C32: with stored points in the window on both sides of the target, a
\* result of interpolatePrice is tagged linear, equals
\* before.usd + (after.usd - before.usd) * (target - before.ts) / (after.ts - before.ts)
\* for the latest point before and the earliest point after the target, and
\* lies between before.usd and after.usd.
LinearBetweenNeighbours ==
  (/\ engine.calls > 0
   /\ BeforeInGap(engine.timestamp) # {}
   /\ AfterInGap(engine.timestamp) # {}
   /\ engine.result # NoDoc)
    => LET before == LatestBefore(engine.timestamp)
           after == EarliestAfter(engine.timestamp)
           usd == engine.result[1].usd
       IN  /\ engine.result[1].method = "linear"
           /\ REq(usd,
                  RAdd(before.usd,
                       RMul(RSub(after.usd, before.usd),
                            Norm(engine.timestamp - before.timestamp,
                                 after.timestamp - before.timestamp))))
           /\ RLeq(RMin(before.usd, after.usd), usd)
           /\ RLeq(usd, RMax(before.usd, after.usd))

C32Witness ==
  /\ engine.calls > 0
  /\ BeforeInGap(engine.timestamp) # {}
  /\ AfterInGap(engine.timestamp) # {}
  /\ engine.result # NoDoc
  /\ LatestBefore(engine.timestamp).usd = RInt(10)
  /\ EarliestAfter(engine.timestamp).usd = RInt(20)
  /\ LatestBefore(engine.timestamp).timestamp = engine.timestamp - UnitsPerDay
  /\ EarliestAfter(engine.timestamp).timestamp = engine.timestamp + UnitsPerDay
  /\ REq(engine.result[1].usd, RInt(15))

OneSided(points, target) ==
  /\ Len(points) >= 2
  /\ \/ \A i \in 1..Len(points) : points[i].timestamp < target
     \/ \A i \in 1..Len(points) : points[i].timestamp > target

NearestPoint(points, target) ==
  points[CHOOSE i \in 1..Len(points) :
           \A j \in 1..Len(points) :
             Abs(target - points[i].timestamp) <= Abs(target - points[j].timestamp)]

\* C33: with stored points on one side of the target only, the usd that
\* extrapolatePrice returns lies within plus or minus
\* extrapolationMaxChangePercent / 100 of the usd of the point nearest to the
\* target and is at least 0.0001, for a target after all points and for a
\* target before all points.
ExtrapolationWithinBound ==
  (/\ engine.calls > 0
   /\ OneSided(engine.filteredPrices, engine.timestamp))
    => LET r == extrapolatePrice(engine.filteredPrices, engine.timestamp)
           near == NearestPoint(engine.filteredPrices, engine.timestamp).usd
           k == Norm(extrapolationMaxChangePercent, 100)
       IN  r.price # NoDoc
             => /\ RLeq(RMul(near, RSub(ROne, k)), r.price[1])
                /\ RLeq(r.price[1], RMul(near, RAdd(ROne, k)))
                /\ RLeq(MinExtrapolatedUsd, r.price[1])

\* The live price records whose timestamp falls in the day of a rollup row.
RecordsOfDay(key) ==
  {id \in DOMAIN prices :
     /\ prices[id].timestamp \notin Unparseable
     /\ HistoricalKey(prices[id]) = key}

\* C34: whenever no storeTokenPrice call is between its two writes, the count
\* of every daily rollup row equals the number of distinct live price records
\* of its (token, network, day), also after a record was stored again.
RollupCountsLiveRecords ==
  (\A s \in Storers : storer[s].pc = "idle")
    => \A key \in DOMAIN historical :
         historical[key].count = Cardinality(RecordsOfDay(key))

\* C35: once a cache operation was recorded today, the getCacheStats(1) of the
\* metrics collection includes today's bucket: its total_operations is at
\* least the number recorded today and its daily_breakdown is not empty.
MetricsIncludeToday ==
  Bucket(cacheStats, now).total >= 1
    => LET aggregated == getCacheStats(cacheStats, 1, now)
       IN  /\ aggregated.total_operations >= Bucket(cacheStats, now).total
           /\ aggregated.daily_breakdown # {}

(***************************************************************************)
(* SpecCurrent: current-price and historical requests for one token in     *)
(* both spellings, with failures of Redis, MongoDB and the oracle.         *)
(***************************************************************************)
NextCurrent ==
  \/ \E h \in Handlers, token \in {"0xab", "0xAB"},
        timestamp \in {NoTs, MaxTime - 1} :
       Receive(h, token, "ethereum", timestamp)
  \/ \E h \in Handlers : HandlerRun(h)
  \/ \E h \in Handlers : HandlerFault(h)

SpecCurrent == Init /\ [][NextCurrent]_vars

\* The live records of a (token, network) pair.
RecordsOfPair(token, network) ==
  {id \in DOMAIN prices :
     /\ toLowerCase(prices[id].token) = toLowerCase(token)
     /\ prices[id].network = network}

\* C36: a request without timestamp reaches the oracle only if the cache has
\* no "current" entry and the store holds no record at all for its
\* (token, network).
OracleOnlyForUnknownPair ==
  \A h \in Handlers :
    (handler[h].pc = "oracle" /\ handler[h].timestamp = NoTs)
      => /\ cacheGet(cache, generateCacheKey(handler[h].token, handler[h].network,
                                             NoTs)) = NoDoc
         /\ RecordsOfPair(handler[h].token, handler[h].network) = {}

(***************************************************************************)
(* StorageManager: storeTokenPrice with the strategy cold and              *)
(* archiveOldData, one step per await.  DatabaseManager.archiveOldData     *)
(* has the same three steps.                                               *)
(***************************************************************************)
\* The document of an upsert that keeps the createdAt of the document it
\* replaces.
mongoStoreKeepingCreatedAt(coll, id, data, clock) ==
  ReplaceOne(coll, id,
    [f \in DOMAIN data \cup {"createdAt", "updatedAt"} |->
       IF f = "createdAt"
         THEN IF id \in DOMAIN coll THEN coll[id].createdAt ELSE clock
       ELSE IF f = "updatedAt" THEN clock
       ELSE data[f]])

\* mongoStore with upsert: replaceOne of {...data, createdAt, updatedAt},
\* both dates read from the clock.
mongoStore(coll, id, data, clock) ==
  ReplaceOne(coll, id,
    [f \in DOMAIN data \cup {"createdAt", "updatedAt"} |->
       IF f \in {"createdAt", "updatedAt"} THEN clock ELSE data[f]])

\* mongoDoc: {_id: key, ...priceData, storage_strategy}
mongoDoc(priceData, strategy) ==
  LET key == generatePriceKey(priceData.token, priceData.network, priceData.timestamp)
  IN  [f \in DOMAIN priceData \cup {"_id", "storage_strategy"} |->
         IF f = "_id" THEN key
         ELSE IF f = "storage_strategy" THEN strategy
         ELSE priceData[f]]

\* storeTokenPrice(priceData, "cold") is called: no cacheSet for this strategy.
SmStoreCall(s, priceData) ==
  /\ storer[s].pc = "idle"
  /\ StoreCalls(NumStorers) < MaxStores
  /\ storer' = [storer EXCEPT ![s] =
       [@ EXCEPT !.pc = "mongoStore", !.priceData = Some(priceData),
                 !.calls = @ + 1]]
  /\ UNCHANGED << cache, prices, tokens, priceQueue, batchQueue, now, handler,
                  worker, batch, batchJobs, requests, historical, batchReply,
                  storedAt, lifecycle >>

\* The mongoStore of storeTokenPrice; storeHistoricalPrice follows.
SmMongoStore(s) ==
  /\ storer[s].pc = "mongoStore"
  /\ LET document == mongoDoc(storer[s].priceData[1], "cold")
     IN  prices' = mongoStore(prices, document._id, document, now)
  /\ storer' = [storer EXCEPT ![s] = [@ EXCEPT !.pc = "updateOne"]]
  /\ UNCHANGED << cache, tokens, priceQueue, batchQueue, now, handler, worker,
                  batch, batchJobs, requests, historical, batchReply,
                  storedAt, lifecycle >>

\* The documents deleteMany({createdAt: {$lt: cutoffDate}}) matches.
Expired(coll, cutoffDate) ==
  {id \in DOMAIN coll : FieldLt(coll[id], "createdAt", cutoffDate)}

\* archiveOldData(daysOld) up to the result of mongoFind; with nothing found
\* it returns 0.
ArchiveFind(daysOld) ==
  /\ archiver.pc = "idle"
  /\ archiver.runs < MaxArchiverRuns
  /\ LET cutoffDate == now - daysOld * UnitsPerDay
         oldData == {prices[id] : id \in Expired(prices, cutoffDate)}
     IN  archiver' = [archiver EXCEPT
           !.pc = IF oldData # {} THEN "insertMany" ELSE "idle",
           !.cutoffDate = cutoffDate, !.oldData = oldData, !.runs = @ + 1]
  /\ UNCHANGED << cache, prices, tokens, priceQueue, batchQueue, now, handler,
                  worker, batch, batchJobs, requests, historical, batchReply,
                  storer, storedAt, archived, archiveRuns, cron, cacheStats,
                  sm, conn, engine, lm >>

\* The _id values the archived collection holds.
ArchivedIds == {a.doc._id : a \in {b \in archived : "_id" \in DOMAIN b.doc}}

Copies(docs) ==
  {[doc |-> doc, archivedAt |-> now, compressed |-> TRUE] : doc \in docs}

\* insertMany of the copies: every _id is new to the archived collection.
ArchiveInsertMany ==
  /\ archiver.pc = "insertMany"
  /\ \A doc \in archiver.oldData : doc._id \notin ArchivedIds
  /\ archived' = archived \cup Copies(archiver.oldData)
  /\ archiver' = [archiver EXCEPT !.pc = "deleteMany"]
  /\ UNCHANGED << cache, prices, tokens, priceQueue, batchQueue, now, handler,
                  worker, batch, batchJobs, requests, historical, batchReply,
                  storer, storedAt, archiveRuns, cron, cacheStats, sm, conn,
                  engine, lm >>

\* insertMany rejects (a duplicate _id, or the connection): some of the
\* copies whose _id is new were inserted; the catch returns 0.
ArchiveInsertFails ==
  /\ archiver.pc = "insertMany"
  /\ \E inserted \in SUBSET {doc \in archiver.oldData : doc._id \notin ArchivedIds} :
       /\ inserted # archiver.oldData
       /\ archived' = archived \cup Copies(inserted)
  /\ archiver' = [archiver EXCEPT !.pc = "idle", !.oldData = {}]
  /\ UNCHANGED << cache, prices, tokens, priceQueue, batchQueue, now, handler,
                  worker, batch, batchJobs, requests, historical, batchReply,
                  storer, storedAt, archiveRuns, cron, cacheStats, sm, conn,
                  engine, lm >>

\* The ghost fields of a deleteMany that removed the given documents.
Deleted(gone) ==
  [archiver EXCEPT
     !.pc = "idle", !.oldData = {},
     !.removed = @ \cup {prices[id] : id \in gone},
     !.raced = @ \/ \E doc \in archiver.oldData :
                      doc._id \notin DOMAIN prices \/ prices[doc._id] # doc]

\* mongoDelete with the filter of the find; archiveOldData returns.
ArchiveDeleteMany ==
  /\ archiver.pc = "deleteMany"
  /\ LET gone == Expired(prices, archiver.cutoffDate)
     IN  /\ prices' = [id \in DOMAIN prices \ gone |-> prices[id]]
         /\ archiver' = Deleted(gone)
  /\ UNCHANGED << cache, tokens, priceQueue, batchQueue, now, handler, worker,
                  batch, batchJobs, requests, historical, batchReply, storer,
                  storedAt, archived, archiveRuns, cron, cacheStats, sm, conn,
                  engine, lm >>

\* deleteMany rejects after removing some of the matching documents (none,
\* when the failure comes between the copy and the delete); the catch
\* returns 0.
ArchiveDeleteFails ==
  /\ archiver.pc = "deleteMany"
  /\ \E gone \in SUBSET Expired(prices, archiver.cutoffDate) :
       /\ gone # Expired(prices, archiver.cutoffDate)
       /\ prices' = [id \in DOMAIN prices \ gone |-> prices[id]]
       /\ archiver' = Deleted(gone)
  /\ UNCHANGED << cache, tokens, priceQueue, batchQueue, now, handler, worker,
                  batch, batchJobs, requests, historical, batchReply, storer,
                  storedAt, archived, archiveRuns, cron, cacheStats, sm, conn,
                  engine, lm >>

(***************************************************************************)
(* SpecArchiver: a caller storing two keys with the strategy cold, days    *)
(* passing and runs of archiveOldData beside it, with failures of the two  *)
(* writes of a run.                                                        *)
(***************************************************************************)
ArchiveDays == 0..1

NextArchiver ==
  \/ \E timestamp \in (MaxTime - 1)..MaxTime :
       SmStoreCall(1, AlchemyRecord("0xab", "ethereum", timestamp, 20, now))
  \/ SmMongoStore(1)
  \/ StorerRollup(1)
  \/ DayTick
  \/ \E daysOld \in ArchiveDays : ArchiveFind(daysOld)
  \/ ArchiveInsertMany
  \/ ArchiveInsertFails
  \/ ArchiveDeleteMany
  \/ ArchiveDeleteFails

InitArchiver == Boot({}, << >>) /\ prices = EmptyMap

SpecArchiver == InitArchiver /\ [][NextArchiver]_vars

\* C37: every record archiveOldData removed from the live collection has a
\* copy in the archived collection, also when a write of the run fails and
\* when records are stored while the run is under way.
ArchivalKeepsCopies ==
  \A doc \in archiver.removed : \E a \in archived : a.doc = doc

\* A run removed a record although a record of its snapshot was stored
\* again between the find and the delete.
C37Witness == archiver.removed # {} /\ archiver.raced

\* The cache entry of the key holds a value that is no document of the store.
CachedNotStored(key) ==
  /\ key \in DOMAIN cache
  /\ \A id \in DOMAIN prices : prices[id] # cache[key].value

\* C38: after a job of the price-processing worker failed because the store
\* write of its record was rejected, the cache holds no entry for the job's
\* key with a value the store does not hold.
WriteThroughAllOrNothing ==
  \A i \in DOMAIN worker.log :
    LET done == worker.log[i]
    IN  (done.outcome = "failed" /\ done.storeFaults > 0)
          => ~CachedNotStored(generateCacheKey(done.data.token, done.data.network,
                                               done.data.timestamp))

(***************************************************************************)
(* SpecNetworks: requests that spell the network in either letter case.    *)
(***************************************************************************)
NextNetworks ==
  \/ \E h \in Handlers, network \in {"ethereum", "Ethereum"},
        timestamp \in {NoTs, MaxTime - 1} :
       Receive(h, "0xab", network, timestamp)
  \/ \E h \in Handlers : HandlerRun(h)

SpecNetworks == Init /\ [][NextNetworks]_vars

\* C39: a request whose network passed the validation in another letter case
\* addresses the cache entry and the store records of the lower-case network.
NetworkCaseSameKey ==
  \A h \in Handlers :
    LET st == handler[h]
    IN  (st.pc \notin {"init", "done"} /\ Validate(st.token, st.network))
          => /\ cacheGet(cache, generateCacheKey(st.token, st.network, st.timestamp))
                  = cacheGet(cache, generateCacheKey(st.token, toLowerCase(st.network),
                                                     st.timestamp))
             /\ getTokenPrice(prices, st.token, st.network, st.timestamp)
                  = getTokenPrice(prices, st.token, toLowerCase(st.network),
                                  st.timestamp)

(***************************************************************************)
(* SpecLifecycle: start() and stop() of the DataLifecycleManager in any    *)
(* order, days passing, and the data_archival task firing while it is      *)
(* live.                                                                   *)
(***************************************************************************)
LmStart ==
  /\ Len(lm.log) < MaxLmCalls
  /\ lm' = [start(lm) EXCEPT !.log = Append(lm.log, "start")]
  /\ UNCHANGED << cache, prices, tokens, priceQueue, batchQueue, now, handler,
                  worker, batch, batchJobs, requests, historical, batchReply,
                  storer, storedAt, archived, archiveRuns, cron, cacheStats,
                  sm, conn, engine, archiver >>

LmStop ==
  /\ Len(lm.log) < MaxLmCalls
  /\ lm' = [stop(lm) EXCEPT !.log = Append(lm.log, "stop")]
  /\ UNCHANGED << cache, prices, tokens, priceQueue, batchQueue, now, handler,
                  worker, batch, batchJobs, requests, historical, batchReply,
                  storer, storedAt, archived, archiveRuns, cron, cacheStats,
                  sm, conn, engine, archiver >>

\* The callback of the data_archival task, which fires only while the task
\* is scheduled and not stopped.
DataArchivalFires ==
  /\ lm.tasks["data_archival"] > 0
  /\ \E daysOld \in 1..MaxDays : ArchiveOldData(daysOld)

NextLifecycle ==
  \/ LmStart
  \/ LmStop
  \/ DayTick
  \/ DataArchivalFires

SpecLifecycle == Init /\ [][NextLifecycle]_vars

\* C40: isRunning is true exactly when the job map is not empty; every named
\* cron job has at most one live task, and exactly one while the manager is
\* running if its feature is enabled; after stop() no task is live and the
\* map is empty.
LifecycleJobsConsistent ==
  /\ lm.isRunning <=> lm.jobs # {}
  /\ lm.isRunning => lm.jobs = Scheduled(lm)
  /\ \A name \in JobNames : lm.tasks[name] = IF name \in lm.jobs THEN 1 ELSE 0

\* start() was called while running, then stop(), then start() again, and
\* the manager is running with its jobs scheduled.
C40Witness ==
  /\ lm.log = << "start", "stop", "start" >>
  /\ lm.isRunning
  /\ lm.jobs = JobNames

====
